---- MODULE Spec2Model ----
(***************************************************************************)
(* LyraPointer: the gesture interpretation core.                           *)
(*   GestureStateMachine  src/src/core/state_machine.py                    *)
(*   GestureDetector      src/src/gestures/detector.py                     *)
(* Enum members are strings carrying the member's name; Python's None is   *)
(* the string "None" (the gesture type GestureType.NONE is "NONE").        *)
(* time.time() is the integer variable now; the detector reads it in units *)
(* of 50 ms, distances and coordinates are in units of 0.01.                *)
(*   OneEuroFilter, LowPassFilter, Smoother  src/src/tracker/smoother.py   *)
(* The filters' floats are fixed-point integers; their units are stated    *)
(* with the filters.                                                       *)
(***************************************************************************)
EXTENDS Integers, Sequences, FiniteSets, TLC

VARIABLES
    sm,       \* the GestureStateMachine object (a record of its fields)
    now,      \* the wall clock read by time.time()
    lastOp,   \* the last call made on the machine, what it returned and
              \* what the callbacks it invoked observed
    steps,    \* SpecHist, SpecSeq: the calls made so far (negative while
              \* SpecHist fills the history)
    det,      \* the GestureDetector object (a record of its fields)
    lastDet,  \* the last detect call: the hand it was given, the pinch
              \* flags it computed and the gesture it returned
    obs,      \* SpecRelease: what an observer of the detect calls has seen
              \* of the pinches so far
    oef,      \* a OneEuroFilter object (a record of its fields)
    smo,      \* a Smoother object (a record of its fields)
    lastFlt,  \* the last call made on oef or smo: its arguments, what it
              \* returned, and the calls counted so far
    twin,     \* SpecAxes: a second Smoother, given the same samples as smo on
              \* one axis, and what its last call was given and returned
    scr,      \* a ScreenManager object (a record of its fields)
    lastScr,  \* the last call made on scr: its arguments and what it returned
    app,      \* the LyraPointer application (a record of its fields); its
              \* detector, smoother and screen manager are det, smo and scr
    lastFrame, \* the last step of the main loop: the frame it was given, the
              \* gesture it got and the mouse actions it dispatched
    bus,      \* the EventBus: its subscriber lists, history and enabled flag
    thr,      \* each thread's publish call in progress
    lastBus,  \* the last EventBus call that returned, and what it invoked
    rec       \* the GestureRecorder, its playback threads and its caller

vars ==
    <<sm, now, lastOp, steps, det, lastDet, obs, oef, smo, lastFlt, twin, scr,
      lastScr, app, lastFrame, bus, thr, lastBus, rec>>

(***************************************************************************)
(* Enumerations                                                            *)
(***************************************************************************)
None == "None"

ControlState ==
    {"IDLE", "POINTING", "CLICKING", "DRAGGING", "SCROLLING", "PAUSED",
     "CALIBRATING", "TUTORIAL"}

GestureType ==
    {"NONE", "FIST", "PALM", "POINTER", "CLICK", "CLICK_HOLD", "RIGHT_CLICK",
     "DOUBLE_CLICK", "SCROLL", "SCROLL_UP", "SCROLL_DOWN", "PAUSE"}

(***************************************************************************)
(* Bounds of the model                                                     *)
(***************************************************************************)
MaxTime == 1          \* the clock runs over 0..MaxTime
MaxHistory == 1       \* Spec, SpecTable: length the history may reach
MaxCallbacks == 3     \* Spec: registered callbacks, all lists together
MaxCallbacksT == 1    \* SpecTable: registered state-change subscribers
MaxSteps == 3         \* SpecHist: calls made after the initial state
MaxFrames == 2        \* SpecDet: value the frame counter may reach
MaxTimeDet == 6       \* SpecDet: the clock runs over DetStart..DetStart+MaxTimeDet
MaxFramesClick == 5   \* SpecClick: value the frame counter may reach
MaxTimeClick == 6     \* SpecClick: the clock runs over DetStart..DetStart+MaxTimeClick
MaxFramesScroll == 4  \* SpecScroll: value the frame counter may reach
MaxFramesRel == 2     \* SpecRelease: value the frame counter may reach
MaxTimeRel == 12      \* SpecRelease: the clock runs over DetStart..DetStart+MaxTimeRel

\* Callables handed to on_state_change/on_enter/on_exit: "f" returns, "g"
\* raises an Exception each time it is called.
CallbackIds == {"f", "g"}
Raising == {"g"}

\* The callback lists the registrations of a behaviour build up: the raising
\* callback is registered first, so that a callback comes after it.
CallbackLists == {<<>>, <<"g">>, <<"g", "f">>}

\* Inputs of the calls.
GestureInputs == {"POINTER", "FIST"}
ForceStates == {"IDLE", "POINTING", "CALIBRATING"}
ForceGestures == {None}
ExitRegStates == {"IDLE"}
EnterRegStates == {"POINTING"}
EditStates == {"IDLE"}
EditGestures == {"POINTER"}
EditTargets == {"IDLE", "DRAGGING"}
DataKeys == {"k"}
HistGestures == {"POINTER", "FIST", "CLICK"}

\* SpecDet: the clock when the detector is constructed (time.time() is far
\* from the 0 that _last_click_time starts with), the steps it advances by
\* between frames, and the features of the hands shown to detect.
DetStart == 10
DetTimeSteps == {3, 6}
Dists == {6, 8, 12}
Ys == {0, 4}
FingerSets ==
    { {}, {"thumb", "index", "middle", "ring", "pinky"}, {"index"},
      {"index", "middle"}, {"middle"}, {"index", "middle", "ring"} }
Hands ==
    { h \in [ fingers : FingerSets, thumb_index_dist : Dists,
              thumb_middle_dist : Dists, index_y : Ys ] :
        h.index_y = 0 \/ h.fingers = {"index", "middle"} }

\* SpecClick: a pinch followed frame by frame.  The clock advances by 100 or
\* 150 ms, so that a pinch is seen at exactly 250 ms and at 300 ms; the hands
\* are a thumb-index pinch (closed, and half open between the two
\* thresholds), a pointing hand, a hand of no gesture (index, middle and
\* ring extended) and a palm shown with the pinch closed.
ClickTimeSteps == {2, 3}
ClickHands ==
    { [fingers |-> {"index"}, thumb_index_dist |-> 6,
       thumb_middle_dist |-> 12, index_y |-> 0],
      [fingers |-> {"index"}, thumb_index_dist |-> 8,
       thumb_middle_dist |-> 12, index_y |-> 0],
      [fingers |-> {"index"}, thumb_index_dist |-> 12,
       thumb_middle_dist |-> 12, index_y |-> 0],
      [fingers |-> {"index", "middle", "ring"}, thumb_index_dist |-> 12,
       thumb_middle_dist |-> 12, index_y |-> 0],
      [fingers |-> {"thumb", "index", "middle", "ring", "pinky"},
       thumb_index_dist |-> 6, thumb_middle_dist |-> 12, index_y |-> 0] }

\* SpecScroll: the scroll hand (index and middle extended, no pinch) with
\* the index fingertip at one of several heights, so that the accumulator
\* takes every value up to the threshold and beyond it, a pointing hand, a
\* fist and a hand of no gesture.
ScrollYs == {0, 1, 2, 3, 5, 7}
ScrollHands ==
    { [fingers |-> {"index", "middle"}, thumb_index_dist |-> 12,
       thumb_middle_dist |-> 12, index_y |-> y] : y \in ScrollYs }
    \cup
    { [fingers |-> f, thumb_index_dist |-> 12,
       thumb_middle_dist |-> 12, index_y |-> 3] :
        f \in {{"index"}, {}, {"index", "middle", "ring"}} }

\* SpecRelease: a thumb-index pinch and the hands that release it, one for
\* each classification of the release frame (Pointer, None, Scroll,
\* RightClick, Palm, Fist).  The clock advances by 150 or 300 ms.
RelTimeSteps == {3, 6}
RelHands ==
    { [fingers |-> {"index"}, thumb_index_dist |-> 6,
       thumb_middle_dist |-> 12, index_y |-> 0],
      [fingers |-> {"index"}, thumb_index_dist |-> 12,
       thumb_middle_dist |-> 12, index_y |-> 0],
      [fingers |-> {"index", "middle", "ring"}, thumb_index_dist |-> 12,
       thumb_middle_dist |-> 12, index_y |-> 0],
      [fingers |-> {"index", "middle"}, thumb_index_dist |-> 12,
       thumb_middle_dist |-> 12, index_y |-> 0],
      [fingers |-> {"middle"}, thumb_index_dist |-> 12,
       thumb_middle_dist |-> 6, index_y |-> 0],
      [fingers |-> {"thumb", "index", "middle", "ring", "pinky"},
       thumb_index_dist |-> 12, thumb_middle_dist |-> 12, index_y |-> 0],
      [fingers |-> {}, thumb_index_dist |-> 12,
       thumb_middle_dist |-> 12, index_y |-> 0] }

(***************************************************************************)
(* Python dict and list helpers                                            *)
(***************************************************************************)
EmptyDict == [k \in {} |-> None]

DictSet(d, k, v) == [x \in (DOMAIN d) \cup {k} |-> IF x = k THEN v ELSE d[x]]

DictDel(d, k) == [x \in (DOMAIN d) \ {k} |-> d[x]]

\* lst[-n:] for n >= 1
LastN(lst, n) ==
    IF Len(lst) <= n THEN lst ELSE SubSeq(lst, Len(lst) - n + 1, Len(lst))

(***************************************************************************)
(* GestureStateMachine                                                     *)
(***************************************************************************)
history_size == 50

\* Mutant: the drag entry hangs on Pointing instead of Clicking.
DefaultTransitions_dragFromPointing ==
    LET tr(s, g, t) == <<<<s, g>>, t>>
        rules == {
            tr("IDLE", "POINTER", "POINTING"),
            tr("IDLE", "PALM", "PAUSED"),
            tr("IDLE", "SCROLL", "SCROLLING"),
            tr("POINTING", "CLICK", "CLICKING"),
            tr("POINTING", "RIGHT_CLICK", "CLICKING"),
            tr("POINTING", "SCROLL", "SCROLLING"),
            tr("POINTING", "FIST", "IDLE"),
            tr("POINTING", "NONE", "IDLE"),
            tr("POINTING", "PALM", "PAUSED"),
            tr("POINTING", "CLICK_HOLD", "DRAGGING"),
            tr("CLICKING", "POINTER", "POINTING"),
            tr("CLICKING", "NONE", "IDLE"),
            tr("CLICKING", "FIST", "IDLE"),
            tr("DRAGGING", "POINTER", "POINTING"),
            tr("DRAGGING", "NONE", "IDLE"),
            tr("DRAGGING", "FIST", "IDLE"),
            tr("SCROLLING", "POINTER", "POINTING"),
            tr("SCROLLING", "NONE", "IDLE"),
            tr("SCROLLING", "FIST", "IDLE"),
            tr("SCROLLING", "PALM", "PAUSED"),
            tr("PAUSED", "PALM", "IDLE"),
            tr("PAUSED", "POINTER", "POINTING"),
            tr("PAUSED", "FIST", "IDLE") }
    IN  [key \in {r[1] : r \in rules} |->
            (CHOOSE r \in rules : r[1] = key)[2]]

\* Mutant: a fist does not take the machine out of Paused.
DefaultTransitions_fistKeepsPause ==
    LET tr(s, g, t) == <<<<s, g>>, t>>
        rules == {
            tr("IDLE", "POINTER", "POINTING"),
            tr("IDLE", "PALM", "PAUSED"),
            tr("IDLE", "SCROLL", "SCROLLING"),
            tr("POINTING", "CLICK", "CLICKING"),
            tr("POINTING", "RIGHT_CLICK", "CLICKING"),
            tr("POINTING", "SCROLL", "SCROLLING"),
            tr("POINTING", "FIST", "IDLE"),
            tr("POINTING", "NONE", "IDLE"),
            tr("POINTING", "PALM", "PAUSED"),
            tr("CLICKING", "CLICK_HOLD", "DRAGGING"),
            tr("CLICKING", "POINTER", "POINTING"),
            tr("CLICKING", "NONE", "IDLE"),
            tr("CLICKING", "FIST", "IDLE"),
            tr("DRAGGING", "POINTER", "POINTING"),
            tr("DRAGGING", "NONE", "IDLE"),
            tr("DRAGGING", "FIST", "IDLE"),
            tr("SCROLLING", "POINTER", "POINTING"),
            tr("SCROLLING", "NONE", "IDLE"),
            tr("SCROLLING", "FIST", "IDLE"),
            tr("SCROLLING", "PALM", "PAUSED"),
            tr("PAUSED", "PALM", "IDLE"),
            tr("PAUSED", "POINTER", "POINTING") }
    IN  [key \in {r[1] : r \in rules} |->
            (CHOOSE r \in rules : r[1] = key)[2]]

DefaultTransitions ==
    LET tr(s, g, t) == <<<<s, g>>, t>>
        rules == {
            tr("IDLE", "POINTER", "POINTING"),
            tr("IDLE", "PALM", "PAUSED"),
            tr("IDLE", "SCROLL", "SCROLLING"),
            tr("POINTING", "CLICK", "CLICKING"),
            tr("POINTING", "RIGHT_CLICK", "CLICKING"),
            tr("POINTING", "SCROLL", "SCROLLING"),
            tr("POINTING", "FIST", "IDLE"),
            tr("POINTING", "NONE", "IDLE"),
            tr("POINTING", "PALM", "PAUSED"),
            tr("CLICKING", "CLICK_HOLD", "DRAGGING"),
            tr("CLICKING", "POINTER", "POINTING"),
            tr("CLICKING", "NONE", "IDLE"),
            tr("CLICKING", "FIST", "IDLE"),
            tr("DRAGGING", "POINTER", "POINTING"),
            tr("DRAGGING", "NONE", "IDLE"),
            tr("DRAGGING", "FIST", "IDLE"),
            tr("SCROLLING", "POINTER", "POINTING"),
            tr("SCROLLING", "NONE", "IDLE"),
            tr("SCROLLING", "FIST", "IDLE"),
            tr("SCROLLING", "PALM", "PAUSED"),
            tr("PAUSED", "PALM", "IDLE"),
            tr("PAUSED", "POINTER", "POINTING"),
            tr("PAUSED", "FIST", "IDLE") }
    IN  [key \in {r[1] : r \in rules} |->
            (CHOOSE r \in rules : r[1] = key)[2]]

\* GestureStateMachine.__init__ at time t
NewMachine(initial_state, t) ==
    [ state            |-> initial_state,
      previous_state   |-> None,
      entered_at       |-> t,
      current_gesture  |-> None,
      state_data       |-> EmptyDict,
      callbacks        |-> <<>>,
      enter_callbacks  |-> EmptyDict,
      exit_callbacks   |-> EmptyDict,
      transitions      |-> DefaultTransitions,
      history          |-> <<>> ]

\* The state_info property: a StateInfo snapshot of the machine.
StateInfo(m) ==
    [ state          |-> m.state,
      entered_at     |-> m.entered_at,
      previous_state |-> m.previous_state,
      gesture        |-> m.current_gesture,
      data           |-> m.state_data ]

\* Mutant: past the bound the oldest entries are kept (history[:size]).
RecordHistory_keepOldest(m) ==
    LET appended == Append(m.history, StateInfo(m))
    IN  [m EXCEPT !.history =
            IF Len(appended) > history_size
            THEN SubSeq(appended, 1, history_size)
            ELSE appended]

RecordHistory(m) ==
    LET appended == Append(m.history, StateInfo(m))
    IN  [m EXCEPT !.history =
            IF Len(appended) > history_size
            THEN LastN(appended, history_size)
            ELSE appended]

\* One call of a registered callback: what the callback can read from the
\* machine when it runs, the arguments it receives and whether it raises.
Call(kind, cb, m, args) ==
    [ kind   |-> kind,
      cb     |-> cb,
      seen   |-> [ state          |-> m.state,
                   previous_state |-> m.previous_state,
                   entered_at     |-> m.entered_at,
                   state_data     |-> m.state_data ],
      args   |-> args,
      raised |-> cb \in Raising ]

\* for callback in lst: try: callback(*args) except Exception: pass
FireAll(kind, lst, m, args) ==
    [i \in 1..Len(lst) |-> Call(kind, lst[i], m, args)]

FireExitCallbacks(m, state) ==
    IF state \in DOMAIN m.exit_callbacks
    THEN FireAll("exit", m.exit_callbacks[state], m, <<>>)
    ELSE <<>>

FireEnterCallbacks(m, state) ==
    IF state \in DOMAIN m.enter_callbacks
    THEN FireAll("enter", m.enter_callbacks[state], m, <<>>)
    ELSE <<>>

\* The calls of a trace up to and including the first that raises.
UpToRaise(trace) ==
    IF \E i \in 1..Len(trace) : trace[i].raised
    THEN SubSeq(trace, 1,
                CHOOSE i \in 1..Len(trace) :
                    /\ trace[i].raised
                    /\ \A j \in 1..(i - 1) : ~trace[j].raised)
    ELSE trace

Raises(trace) == \E i \in 1..Len(trace) : trace[i].raised

\* Mutant: the state is updated before the exit callbacks run.
DoTransition_updateFirst(m, old_state, new_state, gesture, t) ==
    IF old_state = new_state
    THEN [m |-> m, trace |-> <<>>, exc |-> FALSE]
    ELSE
        LET m1 == RecordHistory(m)
            m2 == [m1 EXCEPT !.previous_state = old_state,
                             !.state = new_state,
                             !.entered_at = t,
                             !.state_data = EmptyDict]
            exits == FireExitCallbacks(m2, old_state)
            enters == FireEnterCallbacks(m2, new_state)
            changes == FireAll("change", m2.callbacks, m2,
                               <<old_state, new_state, gesture>>)
        IN  [m |-> m2, trace |-> exits \o enters \o changes, exc |-> FALSE]

\* Mutant: no try/except around the callbacks, the first raise ends the
\* method where it stands.
DoTransition_noCatch(m, old_state, new_state, gesture, t) ==
    IF old_state = new_state
    THEN [m |-> m, trace |-> <<>>, exc |-> FALSE]
    ELSE
        LET m1 == RecordHistory(m)
            exits == FireExitCallbacks(m1, old_state)
            m2 == [m1 EXCEPT !.previous_state = old_state,
                             !.state = new_state,
                             !.entered_at = t,
                             !.state_data = EmptyDict]
            enters == FireEnterCallbacks(m2, new_state)
            changes == FireAll("change", m2.callbacks, m2,
                               <<old_state, new_state, gesture>>)
            all == exits \o enters \o changes
        IN  [m |-> IF Raises(exits) THEN m1 ELSE m2,
             trace |-> UpToRaise(all),
             exc |-> Raises(all)]

\* Mutant: the early return for old_state == new_state is missing.
DoTransition_noSelfCheck(m, old_state, new_state, gesture, t) ==
    LET m1 == RecordHistory(m)
        exits == FireExitCallbacks(m1, old_state)
        m2 == [m1 EXCEPT !.previous_state = old_state,
                         !.state = new_state,
                         !.entered_at = t,
                         !.state_data = EmptyDict]
        enters == FireEnterCallbacks(m2, new_state)
        changes == FireAll("change", m2.callbacks, m2,
                           <<old_state, new_state, gesture>>)
    IN  [m |-> m2, trace |-> exits \o enters \o changes, exc |-> FALSE]

\* _do_transition: the machine afterwards, the callbacks called in order and
\* whether an exception leaves the method (each call site catches Exception).
DoTransition(m, old_state, new_state, gesture, t) ==
    IF old_state = new_state
    THEN [m |-> m, trace |-> <<>>, exc |-> FALSE]
    ELSE
        LET m1 == RecordHistory(m)
            exits == FireExitCallbacks(m1, old_state)
            m2 == [m1 EXCEPT !.previous_state = old_state,
                             !.state = new_state,
                             !.entered_at = t,
                             !.state_data = EmptyDict]
            enters == FireEnterCallbacks(m2, new_state)
            changes == FireAll("change", m2.callbacks, m2,
                               <<old_state, new_state, gesture>>)
        IN  [m |-> m2, trace |-> exits \o enters \o changes, exc |-> FALSE]

\* Mutant: a pair without table entry still notifies the subscribers.
ProcessGesture_notifyAlways(m, gesture, t) ==
    LET old_state == m.state
        m0 == [m EXCEPT !.current_gesture = gesture]
        key == <<m0.state, gesture>>
    IN  IF key \in DOMAIN m0.transitions
        THEN LET new_state == m0.transitions[key]
                 r == DoTransition(m0, old_state, new_state, gesture, t)
             IN  [m |-> r.m, trace |-> r.trace, exc |-> r.exc,
                  ret |-> <<old_state, new_state>>]
        ELSE [m |-> m0,
              trace |-> FireAll("change", m0.callbacks, m0,
                                <<old_state, old_state, gesture>>),
              exc |-> FALSE,
              ret |-> <<old_state, m0.state>>]

\* process_gesture: as DoTransition, plus the returned (old, new) pair.
ProcessGesture(m, gesture, t) ==
    LET old_state == m.state
        m0 == [m EXCEPT !.current_gesture = gesture]
        key == <<m0.state, gesture>>
    IN  IF key \in DOMAIN m0.transitions
        THEN LET new_state == m0.transitions[key]
                 r == DoTransition(m0, old_state, new_state, gesture, t)
             IN  [m |-> r.m, trace |-> r.trace, exc |-> r.exc,
                  ret |-> <<old_state, new_state>>]
        ELSE [m |-> m0, trace |-> <<>>, exc |-> FALSE,
              ret |-> <<old_state, m0.state>>]

\* Mutant: force_state moves only along an entry of the table.
ForceState_tableOnly(m, state, gesture, t) ==
    LET old_state == m.state
        allowed == \E key \in DOMAIN m.transitions :
                       key[1] = old_state /\ m.transitions[key] = state
        r == DoTransition(m, old_state, IF allowed THEN state ELSE old_state,
                          gesture, t)
    IN  [m |-> r.m, trace |-> r.trace, exc |-> r.exc, ret |-> <<>>]

ForceState(m, state, gesture, t) ==
    LET old_state == m.state
        r == DoTransition(m, old_state, state, gesture, t)
    IN  [m |-> r.m, trace |-> r.trace, exc |-> r.exc, ret |-> <<>>]

\* Mutant: an existing entry is kept (dict.setdefault).
SetTransition_keepOld(m, from_state, gesture, to_state) ==
    IF <<from_state, gesture>> \in DOMAIN m.transitions
    THEN m
    ELSE [m EXCEPT !.transitions = DictSet(@, <<from_state, gesture>>, to_state)]

SetTransition(m, from_state, gesture, to_state) ==
    [m EXCEPT !.transitions = DictSet(@, <<from_state, gesture>>, to_state)]

\* remove_transition: the machine afterwards and whether it raised (del of
\* an absent key would raise KeyError; the membership test keeps it away).
RemoveTransition(m, from_state, gesture) ==
    LET key == <<from_state, gesture>>
    IN  IF key \in DOMAIN m.transitions
        THEN [m |-> [m EXCEPT !.transitions = DictDel(@, key)], exc |-> FALSE]
        ELSE [m |-> m, exc |-> FALSE]

OnStateChange(m, callback) ==
    [m EXCEPT !.callbacks = Append(@, callback)]

OnEnter(m, state, callback) ==
    LET d == IF state \in DOMAIN m.enter_callbacks
             THEN m.enter_callbacks
             ELSE DictSet(m.enter_callbacks, state, <<>>)
    IN  [m EXCEPT !.enter_callbacks = DictSet(d, state, Append(d[state], callback))]

OnExit(m, state, callback) ==
    LET d == IF state \in DOMAIN m.exit_callbacks
             THEN m.exit_callbacks
             ELSE DictSet(m.exit_callbacks, state, <<>>)
    IN  [m EXCEPT !.exit_callbacks = DictSet(d, state, Append(d[state], callback))]

ClearHistory(m) == [m EXCEPT !.history = <<>>]

\* Mutant of Reset: the state left is recorded in the history.
Reset_recorded(m, initial_state, t) ==
    [RecordHistory(m) EXCEPT !.previous_state = m.state,
                             !.state = initial_state,
                             !.entered_at = t,
                             !.current_gesture = None,
                             !.state_data = EmptyDict]

\* reset(initial_state) at time t
Reset(m, initial_state, t) ==
    [m EXCEPT !.previous_state = m.state,
              !.state = initial_state,
              !.entered_at = t,
              !.current_gesture = None,
              !.state_data = EmptyDict]

SetStateData(m, key, value) ==
    [m EXCEPT !.state_data = DictSet(@, key, value)]

(***************************************************************************)
(* Subscribers that call back into the machine.  The subscriber "u" calls  *)
(* the unsubscribe function on_state_change returned for it, "p" calls     *)
(* process_gesture(CLICK) and "c" calls force_state(PAUSED) when they are  *)
(* told that Pointing was entered, and "f" only takes note.  The loop over *)
(* self._callbacks reads the list itself at every round, as Python's list  *)
(* iterator does, so it sees what the callbacks did to it.                 *)
(***************************************************************************)
\* list.remove(x), guarded by "if x in list"
RemoveFirst(lst, x) ==
    LET hits == { i \in 1..Len(lst) : lst[i] = x }
    IN  IF hits = {} THEN lst
        ELSE LET k == CHOOSE i \in hits : \A j \in hits : i <= j
             IN  SubSeq(lst, 1, k - 1) \o SubSeq(lst, k + 1, Len(lst))

RECURSIVE NotifyLive(_, _, _, _, _, _)
RECURSIVE DoTransitionLive(_, _, _, _, _)
RECURSIVE ProcessGestureLive(_, _, _)

\* callback(old_state, new_state, gesture) for one of the subscribers above:
\* the machine afterwards and the notifications made meanwhile.
RunCallback(cb, m, new_state, t) ==
    IF cb = "u"
    THEN [ m |-> [m EXCEPT !.callbacks = RemoveFirst(@, "u")],
           trace |-> <<>> ]
    ELSE IF cb = "p" /\ new_state = "POINTING"
    THEN LET r == ProcessGestureLive(m, "CLICK", t)
         IN  [ m |-> r.m, trace |-> r.trace ]
    ELSE IF cb = "c" /\ new_state = "POINTING"
    THEN DoTransitionLive(m, m.state, "PAUSED", None, t)
    ELSE [ m |-> m, trace |-> <<>> ]

\* for callback in self._callbacks: callback(old_state, new_state, gesture),
\* from the i-th entry of the list on: the machine afterwards and the
\* notifications made, in order.
NotifyLive(m, i, old_state, new_state, gesture, t) ==
    IF i > Len(m.callbacks)
    THEN [ m |-> m, trace |-> <<>> ]
    ELSE LET cb == m.callbacks[i]
             r == RunCallback(cb, m, new_state, t)
             rest == NotifyLive(r.m, i + 1, old_state, new_state, gesture, t)
         IN  [ m |-> rest.m,
               trace |-> << [ cb |-> cb,
                              args |-> <<old_state, new_state, gesture>> ] >>
                         \o r.trace \o rest.trace ]

\* _do_transition with such subscribers and no enter or exit callback
\* registered.
DoTransitionLive(m, old_state, new_state, gesture, t) ==
    IF old_state = new_state
    THEN [ m |-> m, trace |-> <<>> ]
    ELSE LET m1 == RecordHistory(m)
             m2 == [m1 EXCEPT !.previous_state = old_state,
                              !.state = new_state,
                              !.entered_at = t,
                              !.state_data = EmptyDict]
         IN  NotifyLive(m2, 1, old_state, new_state, gesture, t)

\* process_gesture with such subscribers.
ProcessGestureLive(m, gesture, t) ==
    LET old_state == m.state
        m0 == [m EXCEPT !.current_gesture = gesture]
        key == <<m0.state, gesture>>
    IN  IF key \in DOMAIN m0.transitions
        THEN LET new_state == m0.transitions[key]
                 r == DoTransitionLive(m0, old_state, new_state, gesture, t)
             IN  [ m |-> r.m, trace |-> r.trace,
                   ret |-> <<old_state, new_state>> ]
        ELSE [ m |-> m0, trace |-> <<>>, ret |-> <<old_state, m0.state>> ]

(***************************************************************************)
(* GestureDetector.  detect is modelled on the features it computes from   *)
(* the landmarks: the set of extended fingers (_get_fingers_extended), the *)
(* two pinch distances (_get_pinch_distance) and the index fingertip's y.  *)
(***************************************************************************)
pinch_threshold == 7             \* 0.07
pinch_release_threshold == 10    \* 0.10
click_hold_frames == 2           \* stored by __init__, read by no method
double_click_interval == 8       \* 0.4 s
HoldDuration == 5                \* 0.25 s
ShortPinch == 6                  \* 0.3 s
scroll_threshold == 3            \* 0.03

ScrollFamily == {"SCROLL", "SCROLL_UP", "SCROLL_DOWN"}

\* GestureDetector.__init__ with the default parameters.  last_gesture is
\* the type of the Gesture kept in _last_gesture; an Optional[float] is <<>>
\* for None and <<y>> for a number.
NewDetector ==
    [ last_gesture       |-> None,
      gesture_frames     |-> 0,
      click_state        |-> "IDLE",
      pinch_start_time   |-> 0,
      last_click_time    |-> 0,
      click_count        |-> 0,
      scroll_start_y     |-> <<>>,
      scroll_accumulator |-> 0 ]

\* Mutant: the sub-state goes back to IDLE, the start time is kept.
ResetClickState_keepStart(d) ==
    [d EXCEPT !.click_state = "IDLE"]

ResetClickState(d) ==
    [d EXCEPT !.click_state = "IDLE", !.pinch_start_time = 0]

\* GestureDetector.reset: every field as after construction.
DetectorReset(d) ==
    [d EXCEPT !.last_gesture = None,
              !.gesture_frames = 0,
              !.click_state = "IDLE",
              !.pinch_start_time = 0,
              !.last_click_time = 0,
              !.click_count = 0,
              !.scroll_start_y = <<>>,
              !.scroll_accumulator = 0]

\* The hysteresis of detect: which threshold a distance is held against.
IsPinch(d, dist) ==
    IF d.click_state = "IDLE"
    THEN dist < pinch_threshold
    ELSE dist < pinch_release_threshold

\* Mutant: a held pinch goes on reporting CLICK_HOLD only while the hold
\* duration is exceeded again, measured from the last frame.
HandleClickState_restartHold(d, current_time) ==
    IF d.click_state = "IDLE"
    THEN [det |-> [d EXCEPT !.click_state = "PINCHING",
                            !.pinch_start_time = current_time],
          type |-> "CLICK"]
    ELSE IF current_time - d.pinch_start_time > HoldDuration
    THEN [det |-> [d EXCEPT !.click_state = "HOLDING",
                            !.pinch_start_time = current_time],
          type |-> "CLICK_HOLD"]
    ELSE [det |-> d, type |-> "CLICK"]

HandleClickState(d, current_time) ==
    IF d.click_state = "IDLE"
    THEN [det |-> [d EXCEPT !.click_state = "PINCHING",
                            !.pinch_start_time = current_time],
          type |-> "CLICK"]
    ELSE IF d.click_state = "PINCHING"
    THEN IF current_time - d.pinch_start_time > HoldDuration
         THEN [det |-> [d EXCEPT !.click_state = "HOLDING"],
               type |-> "CLICK_HOLD"]
         ELSE [det |-> d, type |-> "CLICK"]
    ELSE IF d.click_state = "HOLDING"
    THEN [det |-> d, type |-> "CLICK_HOLD"]
    ELSE [det |-> d, type |-> "CLICK"]

\* Mutant: the accumulator is kept when a scroll step is reported.
DetectScroll_keepAccumulator(d, current_y) ==
    IF d.scroll_start_y = <<>>
    THEN [det |-> [d EXCEPT !.scroll_start_y = <<current_y>>],
          type |-> "SCROLL"]
    ELSE
        LET delta_y == current_y - d.scroll_start_y[1]
            acc == d.scroll_accumulator + delta_y
            d1 == [d EXCEPT !.scroll_accumulator = acc,
                            !.scroll_start_y = <<current_y>>]
        IN  IF acc > scroll_threshold
            THEN [det |-> d1, type |-> "SCROLL_DOWN"]
            ELSE IF acc < -scroll_threshold
            THEN [det |-> d1, type |-> "SCROLL_UP"]
            ELSE [det |-> d1, type |-> "SCROLL"]

DetectScroll(d, current_y) ==
    IF d.scroll_start_y = <<>>
    THEN [det |-> [d EXCEPT !.scroll_start_y = <<current_y>>],
          type |-> "SCROLL"]
    ELSE
        LET delta_y == current_y - d.scroll_start_y[1]
            acc == d.scroll_accumulator + delta_y
            d1 == [d EXCEPT !.scroll_accumulator = acc,
                            !.scroll_start_y = <<current_y>>]
        IN  IF acc > scroll_threshold
            THEN [det |-> [d1 EXCEPT !.scroll_accumulator = 0],
                  type |-> "SCROLL_DOWN"]
            ELSE IF acc < -scroll_threshold
            THEN [det |-> [d1 EXCEPT !.scroll_accumulator = 0],
                  type |-> "SCROLL_UP"]
            ELSE [det |-> d1, type |-> "SCROLL"]

\* Mutant: the scroll branch does not look at the thumb-index pinch.
Branch_scrollIgnoresPinch(fingers, is_thumb_index_pinch, is_thumb_middle_pinch) ==
    LET four == {"index", "middle", "ring", "pinky"}
    IN  IF four \subseteq fingers /\ "thumb" \in fingers THEN "palm"
        ELSE IF fingers \cap four = {} THEN "fist"
        ELSE IF fingers \cap four = {"index", "middle"} THEN "scroll"
        ELSE IF is_thumb_middle_pinch /\ ~is_thumb_index_pinch
        THEN "right_click"
        ELSE IF is_thumb_index_pinch THEN "click"
        ELSE IF fingers \cap four = {"index"} THEN "pointer"
        ELSE "none"

\* The if/elif chain of detect: the branch taken.
Branch(fingers, is_thumb_index_pinch, is_thumb_middle_pinch) ==
    LET four == {"index", "middle", "ring", "pinky"}
        all_extended == four \subseteq fingers
    IN  IF all_extended /\ "thumb" \in fingers THEN "palm"
        ELSE IF fingers \cap four = {} THEN "fist"
        ELSE IF /\ "index" \in fingers
                /\ "middle" \in fingers
                /\ "ring" \notin fingers
                /\ "pinky" \notin fingers
                /\ ~is_thumb_index_pinch
        THEN "scroll"
        ELSE IF is_thumb_middle_pinch /\ ~is_thumb_index_pinch
        THEN "right_click"
        ELSE IF is_thumb_index_pinch THEN "click"
        ELSE IF /\ "index" \in fingers
                /\ "middle" \notin fingers
                /\ "ring" \notin fingers
                /\ "pinky" \notin fingers
        THEN "pointer"
        ELSE "none"

\* Mutant: the frame counter is not restarted when the type changes.
FrameCount_neverRestarts(d, gesture_type) ==
    d.gesture_frames + 1

\* The frame counter of detect: the type found by the if/elif chain against
\* the type of the gesture returned last.
FrameCount(d, gesture_type) ==
    IF d.last_gesture # None /\ d.last_gesture = gesture_type
    THEN d.gesture_frames + 1
    ELSE 1

\* detect(hand) at time current_time: the detector afterwards, the Gesture
\* returned (type and frames) and the two pinch flags it computed.
Detect(d, hand, current_time) ==
    LET is_thumb_index_pinch == IsPinch(d, hand.thumb_index_dist)
        is_thumb_middle_pinch == IsPinch(d, hand.thumb_middle_dist)
        branch == Branch(hand.fingers, is_thumb_index_pinch,
                         is_thumb_middle_pinch)
        \* the if/elif chain
        r1 == IF branch = "palm"
              THEN [det |-> ResetClickState(d), type |-> "PALM"]
              ELSE IF branch = "fist"
              THEN [det |-> ResetClickState(d), type |-> "FIST"]
              ELSE IF branch = "scroll"
              THEN LET sc == DetectScroll(d, hand.index_y)
                   IN  [det |-> ResetClickState(sc.det), type |-> sc.type]
              ELSE IF branch = "right_click"
              THEN [det |-> ResetClickState(d), type |-> "RIGHT_CLICK"]
              ELSE IF branch = "click"
              THEN HandleClickState(d, current_time)
              ELSE IF branch = "pointer"
              THEN [det |-> ResetClickState(d), type |-> "POINTER"]
              ELSE [det |-> d, type |-> "NONE"]
        gesture_type == r1.type
        \* no pinch: a short pinch counts as a click, the sub-machine resets
        d2 == IF ~is_thumb_index_pinch /\ r1.det.click_state # "IDLE"
              THEN LET quick ==
                           /\ r1.det.click_state = "PINCHING"
                           /\ current_time - r1.det.pinch_start_time < ShortPinch
                       counted ==
                           [r1.det EXCEPT
                               !.click_count =
                                   IF current_time - r1.det.last_click_time
                                          < double_click_interval
                                   THEN @ + 1 ELSE 1,
                               !.last_click_time = current_time]
                   IN  ResetClickState(IF quick THEN counted ELSE r1.det)
              ELSE r1.det
        \* the scroll state is dropped outside the scroll family
        d3 == IF gesture_type \notin ScrollFamily
              THEN [d2 EXCEPT !.scroll_start_y = <<>>,
                              !.scroll_accumulator = 0]
              ELSE d2
        frames == FrameCount(d, gesture_type)
        double == gesture_type = "CLICK" /\ d3.click_count >= 2
        out_type == IF double THEN "DOUBLE_CLICK" ELSE gesture_type
    IN  [ det |-> [d3 EXCEPT !.gesture_frames = frames,
                             !.click_count = IF double THEN 0 ELSE @,
                             !.last_gesture = out_type],
          gesture |-> [type |-> out_type, frames |-> frames],
          is_thumb_index_pinch |-> is_thumb_index_pinch,
          is_thumb_middle_pinch |-> is_thumb_middle_pinch ]

\* The observer before the first detect call: no pinch under way (ep), no
\* short click completed (n), and nothing known of the first two (the times
\* t1, t2 they completed at; whether a frame of the second pinch or its
\* release frame returned DOUBLE_CLICK; the click counter after it).
NoPinches ==
    [ ep |-> <<>>, epDbl |-> FALSE, n |-> 0, t1 |-> 0, t2 |-> 0,
      dbl2 |-> FALSE, count2 |-> 0 ]

\* What the observer makes of one detect call, from what the call was given
\* and returned: a pinch is the run of consecutive frames classified in the
\* Click family, it is released by a frame whose thumb-index pinch is not
\* engaged, and it is a click when it is released less than 300 ms after
\* its first frame.  Only the first two clicks are recorded.
Observe(o, type, is_thumb_index_pinch, count, current_time) ==
    LET pinchFrame == type \in {"CLICK", "CLICK_HOLD", "DOUBLE_CLICK"}
        dbl == type = "DOUBLE_CLICK"
        epDbl == IF o.ep = <<>> THEN dbl ELSE o.epDbl \/ dbl
        click == /\ o.ep # <<>>
                 /\ ~is_thumb_index_pinch
                 /\ current_time - o.ep[1] < ShortPinch
        o1 == [o EXCEPT !.ep = IF pinchFrame
                               THEN IF o.ep = <<>> THEN <<current_time>> ELSE @
                               ELSE <<>>,
                        !.epDbl = IF pinchFrame THEN epDbl ELSE FALSE]
    IN  IF click /\ o.n = 0
        THEN [o1 EXCEPT !.n = 1, !.t1 = current_time]
        ELSE IF click /\ o.n = 1
        THEN [o1 EXCEPT !.n = 2, !.t2 = current_time,
                        !.dbl2 = epDbl, !.count2 = count]
        ELSE o1

\* lastDet before the first detect call.
NoDetect ==
    [ called |-> FALSE,
      hand |-> [fingers |-> {}, thumb_index_dist |-> 0,
                thumb_middle_dist |-> 0, index_y |-> 0],
      click_state |-> "IDLE",
      is_thumb_index_pinch |-> FALSE,
      is_thumb_middle_pinch |-> FALSE,
      gesture |-> [type |-> None, frames |-> 0] ]

(***************************************************************************)
(* OneEuroFilter, LowPassFilter, Smoother   src/src/tracker/smoother.py    *)
(*                                                                         *)
(* Fixed point.  A filtered value is an integer number of units of         *)
(* 1/ValueScale; a smoothing coefficient alpha is an integer number of     *)
(* units of 1/AlphaScale; a cutoff frequency and beta are in units of      *)
(* 0.001; a timestamp is in milliseconds and a time delta te in            *)
(* microseconds; a derivative is in units of 1 per second.  A float        *)
(* product is rounded to a representable neighbour of the exact product:   *)
(* each product of a low-pass update rounds down or up, as the call's rnd  *)
(* says.  An Optional float is a sequence: <<>> is None and <<v>> is v.    *)
(***************************************************************************)
AlphaScale == 10000

ValueScale == 1000000

\* 1/(2*pi) seconds, in microseconds times the cutoff unit.
TauNumerator == 159155000

MicrosPerMs == 1000

MicrosPerSecond == 1000000

\* te = 1e-6 seconds.
MinDelta == 1

\* OneEuroFilter.__init__'s defaults.
min_cutoff == 800

beta == 400

d_cutoff == 1000

\* LowPassFilter.__init__'s default.
alpha_default == 5000

\* Smoother.__init__: self._jitter_threshold = 0.002
jitter_threshold == 2000

\* Smoother.smooth: the jitter counter's cap, the count above which the
\* extra low-pass is applied, and its alpha = 0.3.
JitterCap == 10

JitterLimit == 5

ExtraAlpha == 3000

Abs(i) == IF i < 0 THEN 0 - i ELSE i

Min2(a, b) == IF a < b THEN a ELSE b

Max2(a, b) == IF a > b THEN a ELSE b

\* n / d for d # 0, rounded down.
Quot(n, d) == IF d > 0 THEN n \div d ELSE (0 - n) \div (0 - d)

\* a * v / s for a >= 0 and s > 0, rounded down, or up when up is set and
\* the product is not a multiple of s.
MulDiv(a, v, s, up) ==
    LET low == a * (v % s)
    IN  a * (v \div s) + (low \div s)
        + (IF up /\ low % s # 0 THEN 1 ELSE 0)

\* How the two products of a low-pass update round: p the product with the
\* new value, q the product with the last output.
RoundDown == [p |-> FALSE, q |-> FALSE]

Roundings == [p : BOOLEAN, q : BOOLEAN]

NewLowPassFilter(alpha) == [alpha |-> alpha, last_value |-> <<>>]

\* Mutant of LowPassFilter_filter: the last output is not blended in.
LowPassFilter_filter_noBlend(lp, value, alpha, rnd) ==
    LET a == IF alpha = <<>> THEN lp.alpha ELSE alpha[1]
    IN  IF lp.last_value = <<>>
        THEN [lp EXCEPT !.last_value = <<value>>]
        ELSE [lp EXCEPT !.last_value =
                 <<MulDiv(a, value, AlphaScale, rnd.p)>>]

\* LowPassFilter.filter(value, alpha): the filter afterwards; the value
\* returned is its last_value.
LowPassFilter_filter(lp, value, alpha, rnd) ==
    LET a == IF alpha = <<>> THEN lp.alpha ELSE alpha[1]
    IN  IF lp.last_value = <<>>
        THEN [lp EXCEPT !.last_value = <<value>>]
        ELSE [lp EXCEPT !.last_value =
                 <<MulDiv(a, value, AlphaScale, rnd.p)
                   + MulDiv(AlphaScale - a, lp.last_value[1], AlphaScale,
                            rnd.q)>>]

LowPassFilter_reset(lp) == [lp EXCEPT !.last_value = <<>>]

NewOneEuroFilter(mc, b, dc) ==
    [ min_cutoff |-> mc,
      beta |-> b,
      d_cutoff |-> dc,
      x_filter |-> NewLowPassFilter(alpha_default),
      dx_filter |-> NewLowPassFilter(alpha_default),
      last_time |-> <<>> ]

\* _compute_alpha(cutoff, te): <<alpha>>, or <<>> when a division by zero
\* raises ZeroDivisionError.  1/(1 + tau/te) = te/(te + tau), which for
\* te > tau >= 0 is computed as 1 - tau/(te + tau), the same number with
\* the smaller product.
ComputeAlpha(cutoff, te) ==
    IF cutoff = 0 \/ te = 0
    THEN <<>>
    ELSE LET tau == Quot(TauNumerator, cutoff)
         IN  IF te + tau = 0
             THEN <<>>
             ELSE IF tau >= 0 /\ te > tau
                  THEN <<AlphaScale
                         + ((0 - AlphaScale * tau) \div (te + tau))>>
                  ELSE <<Quot(AlphaScale * te, te + tau)>>

\* Mutant of TimeDelta: the delta as it is.
TimeDelta_unclamped(f, timestamp) ==
    (timestamp - f.last_time[1]) * MicrosPerMs

\* The time delta of a later call: timestamp - last_time, 1e-6 if <= 0.
TimeDelta(f, timestamp) ==
    LET te == (timestamp - f.last_time[1]) * MicrosPerMs
    IN  IF te <= 0 THEN MinDelta ELSE te

\* OneEuroFilter.filter(value, timestamp): the filter afterwards, the value
\* returned (<<>> if the call raised), the time delta used (<<>> on a first
\* call) and whether the call raised.
OneEuroFilter_filter(f, value, timestamp, rnd) ==
    IF f.last_time = <<>>
    THEN [ f |-> [f EXCEPT !.last_time = <<timestamp>>,
                           !.x_filter =
                               LowPassFilter_filter(@, value, <<>>, rnd),
                           !.dx_filter =
                               LowPassFilter_filter(@, 0, <<>>, rnd)],
           out |-> <<value>>,
           te |-> <<>>,
           raised |-> FALSE ]
    ELSE LET te == TimeDelta(f, timestamp)
             f1 == [f EXCEPT !.last_time = <<timestamp>>]
             dx == IF f.x_filter.last_value # <<>>
                   THEN IF te = 0
                        THEN <<>>
                        ELSE <<Quot((value - f.x_filter.last_value[1])
                                        * (MicrosPerSecond \div ValueScale),
                                    te)>>
                   ELSE <<0>>
             a_d == ComputeAlpha(f.d_cutoff, te)
             dxf == LowPassFilter_filter(f.dx_filter, dx[1], a_d, rnd)
             edx == dxf.last_value[1]
             cutoff == f.min_cutoff + f.beta * Abs(edx)
             a_x == ComputeAlpha(cutoff, te)
             xf == LowPassFilter_filter(f.x_filter, value, a_x, rnd)
         IN  IF dx = <<>> \/ a_d = <<>>
             THEN [ f |-> f1, out |-> <<>>, te |-> <<te>>,
                    raised |-> TRUE ]
             ELSE IF a_x = <<>>
             THEN [ f |-> [f1 EXCEPT !.dx_filter = dxf], out |-> <<>>,
                    te |-> <<te>>, raised |-> TRUE ]
             ELSE [ f |-> [f1 EXCEPT !.dx_filter = dxf, !.x_filter = xf],
                    out |-> xf.last_value,
                    te |-> <<te>>,
                    raised |-> FALSE ]

\* Mutant of OneEuroFilter_reset: only the derivative's filter is reset.
OneEuroFilter_reset_keepValue(f) ==
    [f EXCEPT !.dx_filter = LowPassFilter_reset(@)]

\* OneEuroFilter.reset()
OneEuroFilter_reset(f) ==
    [f EXCEPT !.x_filter = LowPassFilter_reset(@),
              !.dx_filter = LowPassFilter_reset(@),
              !.last_time = <<>>]

NewSmoother ==
    [ enabled |-> TRUE,
      x_filter |-> NewOneEuroFilter(min_cutoff, beta, d_cutoff),
      y_filter |-> NewOneEuroFilter(min_cutoff, beta, d_cutoff),
      last_x |-> <<>>,
      last_y |-> <<>>,
      jitter_count |-> 0,
      extra |-> <<>> ]

\* Smoother.smooth's jitter detection: the counter after a sample (x, y).
\* sqrt(dx*dx + dy*dy) < threshold is compared on the squares, which are
\* computed only when both dx and dy are below the threshold.
JitterCount(s, x, y) ==
    IF s.last_x # <<>> /\ s.last_y # <<>>
    THEN LET dx == Abs(x - s.last_x[1])
             dy == Abs(y - s.last_y[1])
         IN  IF /\ dx < jitter_threshold
                /\ dy < jitter_threshold
                /\ dx * dx + dy * dy < jitter_threshold * jitter_threshold
             THEN Min2(s.jitter_count + 1, JitterCap)
             ELSE Max2(s.jitter_count - 2, 0)
    ELSE s.jitter_count

\* Smoother.smooth(x, y, timestamp): the smoother afterwards, the pair
\* returned (<<>> if the call raised) and whether the call raised.  extra is
\* <<_extra_x, _extra_y>>, or <<>> while the attributes do not exist.
Smoother_smooth(s, x, y, timestamp, rnd) ==
    IF ~s.enabled
    THEN [ s |-> s, out |-> <<x, y>>, raised |-> FALSE ]
    ELSE LET s1 == [s EXCEPT !.jitter_count = JitterCount(s, x, y),
                             !.last_x = <<x>>,
                             !.last_y = <<y>>]
             rx == OneEuroFilter_filter(s.x_filter, x, timestamp, rnd)
             ry == OneEuroFilter_filter(s.y_filter, y, timestamp, rnd)
             s2 == [s1 EXCEPT !.x_filter = rx.f]
             s3 == [s2 EXCEPT !.y_filter = ry.f]
             filtered_x == rx.out[1]
             filtered_y == ry.out[1]
             extra == IF s.extra # <<>>
                      THEN << MulDiv(ExtraAlpha, filtered_x, AlphaScale,
                                     rnd.p)
                              + MulDiv(AlphaScale - ExtraAlpha, s.extra[1],
                                       AlphaScale, rnd.q),
                              MulDiv(ExtraAlpha, filtered_y, AlphaScale,
                                     rnd.p)
                              + MulDiv(AlphaScale - ExtraAlpha, s.extra[2],
                                       AlphaScale, rnd.q) >>
                      ELSE <<filtered_x, filtered_y>>
         IN  IF rx.raised
             THEN [ s |-> s2, out |-> <<>>, raised |-> TRUE ]
             ELSE IF ry.raised
             THEN [ s |-> s3, out |-> <<>>, raised |-> TRUE ]
             ELSE IF s1.jitter_count > JitterLimit
             THEN [ s |-> [s3 EXCEPT !.extra = extra], out |-> extra,
                    raised |-> FALSE ]
             ELSE [ s |-> [s3 EXCEPT !.extra = <<>>],
                    out |-> <<filtered_x, filtered_y>>,
                    raised |-> FALSE ]

Smoother_reset(s) ==
    [s EXCEPT !.x_filter = OneEuroFilter_reset(@),
              !.y_filter = OneEuroFilter_reset(@),
              !.last_x = <<>>,
              !.last_y = <<>>,
              !.jitter_count = 0,
              !.extra = <<>>]

\* twin before any call.
NoTwin == [ s |-> NewSmoother, axis |-> 1, value |-> <<>>, out |-> <<>> ]

\* lastFlt before any call: obj is the object the calls are made on, n the
\* calls of filter or smooth so far, since the calls since the object was
\* constructed or reset, and held what the last reset() discarded (the
\* filter's last output; the smoother's jitter count and extra pair).
NoFilterCall ==
    [ obj |-> "oef", op |-> "__init__", value |-> <<>>, timestamp |-> 0,
      late |-> FALSE, out |-> <<>>, te |-> <<>>, raised |-> FALSE,
      n |-> 0, since |-> 0, resets |-> 0, held |-> <<>> ]

(***************************************************************************)
(* ScreenManager   src/src/control/screen.py                               *)
(*                                                                         *)
(* A camera coordinate is an integer number of units of 1/ValueScale, a    *)
(* normalized coordinate of units of 1/NormScale, the sensitivity of units *)
(* of 1/SensScale; pixels are integers.  A division rounds down.           *)
(***************************************************************************)
NormScale == 1000

SensScale == 10

\* ScreenManager.__init__'s defaults: sensitivity 1.5, zone 0.15 .. 0.85.
sensitivity_default == 15

zone_min_default == 150000

zone_max_default == 850000

DefaultZone ==
    [ x_min |-> zone_min_default, x_max |-> zone_max_default,
      y_min |-> zone_min_default, y_max |-> zone_max_default ]

\* The primary display when no monitor is detected otherwise.
DefaultScreen == [ x |-> 0, y |-> 0, width |-> 1920, height |-> 1080 ]

NewScreenManager ==
    [ sensitivity |-> sensitivity_default,
      control_zone |-> DefaultZone,
      primary_screen |-> DefaultScreen ]

\* max(lo, min(hi, v))
Clamp(lo, hi, v) == Max2(lo, Min2(hi, v))

\* One axis of normalize_to_zone: the coordinate c in the zone zmin .. zmax.
NormalizeAxis(c, zmin, zmax, sensitivity) ==
    LET zone_size == zmax - zmin
        n == MulDiv(NormScale, c - zmin, zone_size, FALSE)
        center == NormScale \div 2
        warped == center + Quot((n - center) * sensitivity, SensScale)
    IN  Clamp(0, NormScale, warped)

\* Mutant of NormalizeToZone: the sensitivity scales the coordinate itself,
\* not its distance from the centre.
NormalizeToZone_warpAboutOrigin(s, x, y) ==
    LET zone == s.control_zone
        nx == MulDiv(NormScale, x - zone.x_min, zone.x_max - zone.x_min,
                     FALSE)
        ny == MulDiv(NormScale, y - zone.y_min, zone.y_max - zone.y_min,
                     FALSE)
    IN  << Clamp(0, NormScale, Quot(nx * s.sensitivity, SensScale)),
           Clamp(0, NormScale, Quot(ny * s.sensitivity, SensScale)) >>

\* normalize_to_zone(x, y)
NormalizeToZone(s, x, y) ==
    LET zone == s.control_zone
    IN  << NormalizeAxis(x, zone.x_min, zone.x_max, s.sensitivity),
           NormalizeAxis(y, zone.y_min, zone.y_max, s.sensitivity) >>

\* int(origin + c * size) for a coordinate c in units of 1/scale: the sum
\* rounded towards zero.
Pixel(origin, c, size, scale) ==
    LET floor == origin + MulDiv(size, c, scale, FALSE)
        exact == (size * (c % scale)) % scale = 0
    IN  IF floor < 0 /\ ~exact THEN floor + 1 ELSE floor

\* Mutant of CameraToScreen: the horizontal axis is not flipped.
CameraToScreen_noFlip(s, x, y, use_zone) ==
    LET n == IF use_zone THEN NormalizeToZone(s, x, y) ELSE <<x, y>>
        scale == IF use_zone THEN NormScale ELSE ValueScale
        screen == s.primary_screen
        px == Pixel(screen.x, n[1], screen.width, scale)
        py == Pixel(screen.y, n[2], screen.height, scale)
    IN  << Clamp(screen.x, screen.x + screen.width - 1, px),
           Clamp(screen.y, screen.y + screen.height - 1, py) >>

\* camera_to_screen(x, y, use_zone)
CameraToScreen(s, x, y, use_zone) ==
    LET n == IF use_zone THEN NormalizeToZone(s, x, y) ELSE <<x, y>>
        scale == IF use_zone THEN NormScale ELSE ValueScale
        flipped == scale - n[1]
        screen == s.primary_screen
        px == Pixel(screen.x, flipped, screen.width, scale)
        py == Pixel(screen.y, n[2], screen.height, scale)
    IN  << Clamp(screen.x, screen.x + screen.width - 1, px),
           Clamp(screen.y, screen.y + screen.height - 1, py) >>

\* Mutant of IsInControlZone: the bounds themselves are outside.
IsInControlZone_exclusive(s, x, y) ==
    LET zone == s.control_zone
    IN  /\ zone.x_min < x
        /\ x < zone.x_max
        /\ zone.y_min < y
        /\ y < zone.y_max

\* is_in_control_zone(x, y)
IsInControlZone(s, x, y) ==
    LET zone == s.control_zone
    IN  /\ zone.x_min <= x
        /\ x <= zone.x_max
        /\ zone.y_min <= y
        /\ y <= zone.y_max

\* set_sensitivity(sensitivity): clamped to 0.1 .. 5.0
SetSensitivity(s, sensitivity) ==
    [s EXCEPT !.sensitivity = Clamp(1, 50, sensitivity)]

\* set_control_zone(x_min, x_max, y_min, y_max)
SetControlZone(s, zone) == [s EXCEPT !.control_zone = zone]

\* lastScr before any call.
NoScreenCall ==
    [ op |-> "__init__", x |-> 0, y |-> 0, use_zone |-> TRUE, out |-> <<>> ]

(***************************************************************************)
(* LyraPointer, the main loop   src/src/main.py                            *)
(*                                                                         *)
(* The application owns a GestureDetector (det), a Smoother (smo) and a    *)
(* ScreenManager (scr).  A frame is what the tracker returns for it: <<>>  *)
(* (no hand) or <<f>> with f.hand the features of the first hand and       *)
(* f.tip the position of its index fingertip, in units of 0.01; the        *)
(* fingertip's y is also the y the detector follows while scrolling.  A    *)
(* mouse action is a tuple: its name, then its arguments.                  *)
(***************************************************************************)
\* One unit of a fingertip coordinate, in the smoother's units.
TipUnit == 10000

\* One unit of the clock now in ms, the unit of the smoother's timestamps.
MsPerTick == 50

\* _execute_gesture: gesture.frames >= 8 toggles the pause.
PalmFrames == 8

\* MouseController.mouse_down() and mouse_up(): whether the left button is
\* down after the actions, given whether it was down before them.
RECURSIVE ButtonAfter(_, _)
ButtonAfter(held, actions) ==
    IF actions = <<>> THEN held
    ELSE LET name == Head(actions)[1]
         IN  ButtonAfter(IF name = "mouse_down" THEN TRUE
                         ELSE IF name = "mouse_up" THEN FALSE
                         ELSE held,
                         Tail(actions))

\* Whether every mouse_down of the actions finds the button up and every
\* mouse_up finds it down.
RECURSIVE ButtonsAlternate(_, _)
ButtonsAlternate(held, actions) ==
    IF actions = <<>> THEN TRUE
    ELSE LET name == Head(actions)[1]
         IN  /\ name = "mouse_down" => ~held
             /\ name = "mouse_up" => held
             /\ ButtonsAlternate(ButtonAfter(held, <<Head(actions)>>),
                                 Tail(actions))

\* _cleanup(): the application afterwards and the actions dispatched.
Cleanup(a) ==
    [ app |-> a,
      actions |-> IF a.is_dragging THEN << <<"mouse_up">> >> ELSE <<>> ]

NewApp ==
    [ is_paused |-> FALSE, is_dragging |-> FALSE, last_gesture |-> <<>> ]

\* Mutant of TogglePause: pausing leaves a drag as it is.
TogglePause_keepDrag(a) ==
    [ app |-> [a EXCEPT !.is_paused = ~a.is_paused], actions |-> <<>> ]

\* _toggle_pause(): the application afterwards and the actions dispatched.
TogglePause(a) ==
    LET paused == ~a.is_paused
    IN  IF paused /\ a.is_dragging
        THEN [ app |-> [a EXCEPT !.is_paused = paused,
                                 !.is_dragging = FALSE],
               actions |-> << <<"mouse_up">> >> ]
        ELSE [ app |-> [a EXCEPT !.is_paused = paused],
               actions |-> <<>> ]

\* Whether the gesture before this one was none of the given types.
FirstOf(a, types) ==
    \/ a.last_gesture = <<>>
    \/ a.last_gesture[1].type \notin types

\* Mutant of ExecuteGesture: a drag goes on while the hand points.
ExecuteGesture_dragWhilePointing(a, gesture, x, y) ==
    LET gesture_type == gesture.type
        move == << <<"move_to", x, y>> >>
        \* the if/elif chain
        r1 == IF gesture_type = "POINTER"
              THEN [ app |-> a, actions |-> move ]
              ELSE IF gesture_type = "CLICK"
              THEN [ app |-> a,
                     actions |->
                         IF FirstOf(a, {"CLICK", "CLICK_HOLD"})
                         THEN move \o << <<"click">> >>
                         ELSE move ]
              ELSE IF gesture_type = "DOUBLE_CLICK"
              THEN [ app |-> a,
                     actions |->
                         IF FirstOf(a, {"DOUBLE_CLICK"})
                         THEN move \o << <<"double_click">> >>
                         ELSE move ]
              ELSE IF gesture_type = "CLICK_HOLD"
              THEN IF ~a.is_dragging
                   THEN [ app |-> [a EXCEPT !.is_dragging = TRUE],
                          actions |-> move \o << <<"mouse_down">> >> ]
                   ELSE [ app |-> a, actions |-> move ]
              ELSE IF gesture_type = "RIGHT_CLICK"
              THEN [ app |-> a,
                     actions |->
                         IF FirstOf(a, {"RIGHT_CLICK"})
                         THEN move \o << <<"right_click">> >>
                         ELSE move ]
              ELSE IF gesture_type = "SCROLL_UP"
              THEN [ app |-> a, actions |-> << <<"scroll_up">> >> ]
              ELSE IF gesture_type = "SCROLL_DOWN"
              THEN [ app |-> a, actions |-> << <<"scroll_down">> >> ]
              ELSE IF /\ gesture_type = "PALM"
                      /\ gesture.frames >= PalmFrames
                      /\ \/ FirstOf(a, {"PALM"})
                         \/ a.last_gesture[1].frames < PalmFrames
              THEN TogglePause(a)
              ELSE [ app |-> a, actions |-> <<>> ]
        \* the drag ends when the gesture is no pinch any more
        r2 == IF r1.app.is_dragging
                  /\ gesture_type \notin {"CLICK_HOLD", "CLICK", "POINTER"}
              THEN [ app |-> [r1.app EXCEPT !.is_dragging = FALSE],
                     actions |-> r1.actions \o << <<"mouse_up">> >> ]
              ELSE r1
    IN  [ app |-> [r2.app EXCEPT !.last_gesture = <<gesture>>],
          actions |-> r2.actions ]

\* _execute_gesture(gesture, x, y): the application afterwards and the
\* actions dispatched, in order.
ExecuteGesture(a, gesture, x, y) ==
    LET gesture_type == gesture.type
        move == << <<"move_to", x, y>> >>
        \* the if/elif chain
        r1 == IF gesture_type = "POINTER"
              THEN [ app |-> a, actions |-> move ]
              ELSE IF gesture_type = "CLICK"
              THEN [ app |-> a,
                     actions |->
                         IF FirstOf(a, {"CLICK", "CLICK_HOLD"})
                         THEN move \o << <<"click">> >>
                         ELSE move ]
              ELSE IF gesture_type = "DOUBLE_CLICK"
              THEN [ app |-> a,
                     actions |->
                         IF FirstOf(a, {"DOUBLE_CLICK"})
                         THEN move \o << <<"double_click">> >>
                         ELSE move ]
              ELSE IF gesture_type = "CLICK_HOLD"
              THEN IF ~a.is_dragging
                   THEN [ app |-> [a EXCEPT !.is_dragging = TRUE],
                          actions |-> move \o << <<"mouse_down">> >> ]
                   ELSE [ app |-> a, actions |-> move ]
              ELSE IF gesture_type = "RIGHT_CLICK"
              THEN [ app |-> a,
                     actions |->
                         IF FirstOf(a, {"RIGHT_CLICK"})
                         THEN move \o << <<"right_click">> >>
                         ELSE move ]
              ELSE IF gesture_type = "SCROLL_UP"
              THEN [ app |-> a, actions |-> << <<"scroll_up">> >> ]
              ELSE IF gesture_type = "SCROLL_DOWN"
              THEN [ app |-> a, actions |-> << <<"scroll_down">> >> ]
              ELSE IF /\ gesture_type = "PALM"
                      /\ gesture.frames >= PalmFrames
                      /\ \/ FirstOf(a, {"PALM"})
                         \/ a.last_gesture[1].frames < PalmFrames
              THEN TogglePause(a)
              ELSE [ app |-> a, actions |-> <<>> ]
        \* the drag ends when the gesture is no pinch any more
        r2 == IF r1.app.is_dragging
                  /\ gesture_type \notin {"CLICK_HOLD", "CLICK"}
              THEN [ app |-> [r1.app EXCEPT !.is_dragging = FALSE],
                     actions |-> r1.actions \o << <<"mouse_up">> >> ]
              ELSE r1
    IN  [ app |-> [r2.app EXCEPT !.last_gesture = <<gesture>>],
          actions |-> r2.actions ]

\* Mutant of ProcessFrame: a frame without a hand leaves the smoother alone.
ProcessFrame_keepSmoother(a, d, s, screen, hands, current_time) ==
    IF hands = <<>>
    THEN [ app |-> [a EXCEPT !.is_dragging = FALSE],
           det |-> DetectorReset(d),
           smo |-> s,
           gesture |-> <<>>,
           smoothed |-> <<>>,
           actions |-> IF a.is_dragging THEN << <<"mouse_up">> >> ELSE <<>> ]
    ELSE LET hand == hands[1].hand
             tip == << hands[1].tip[1] * TipUnit, hands[1].tip[2] * TipUnit >>
             InZone(r, sr) ==
                 LET px == CameraToScreen(screen, sr.out[1], sr.out[2], TRUE)
                     ex == ExecuteGesture(a, r.gesture, px[1], px[2])
                 IN  [ app |-> ex.app, det |-> r.det, smo |-> sr.s,
                       gesture |-> <<r.gesture>>, smoothed |-> sr.out,
                       actions |-> ex.actions ]
             OutOfZone(r) ==
                 [ app |-> a, det |-> r.det, smo |-> s,
                   gesture |-> <<r.gesture>>, smoothed |-> <<>>,
                   actions |-> <<>> ]
         IN  CHOOSE result \in
                 { IF ~IsInControlZone(screen, tip[1], tip[2])
                   THEN OutOfZone(r)
                   ELSE CHOOSE v \in
                            { InZone(r, sr) :
                                  sr \in { Smoother_smooth(
                                               s, tip[1], tip[2],
                                               current_time * MsPerTick,
                                               RoundDown) } } : TRUE
                   : r \in { Detect(d, hand, current_time) } } : TRUE

\* _process_frame(frame) at the time current_time: the application, its
\* detector and smoother afterwards, the gesture returned (<<>> for None),
\* the smoothed fingertip (<<>> if the smoother was not called) and the
\* actions dispatched.  r is what detect returned, sr what smooth returned;
\* each is computed once.
ProcessFrame(a, d, s, screen, hands, current_time) ==
    IF hands = <<>>
    THEN [ app |-> [a EXCEPT !.is_dragging = FALSE],
           det |-> DetectorReset(d),
           smo |-> Smoother_reset(s),
           gesture |-> <<>>,
           smoothed |-> <<>>,
           actions |-> IF a.is_dragging THEN << <<"mouse_up">> >> ELSE <<>> ]
    ELSE LET hand == hands[1].hand
             tip == << hands[1].tip[1] * TipUnit, hands[1].tip[2] * TipUnit >>
             InZone(r, sr) ==
                 LET px == CameraToScreen(screen, sr.out[1], sr.out[2], TRUE)
                     ex == ExecuteGesture(a, r.gesture, px[1], px[2])
                 IN  [ app |-> ex.app, det |-> r.det, smo |-> sr.s,
                       gesture |-> <<r.gesture>>, smoothed |-> sr.out,
                       actions |-> ex.actions ]
             OutOfZone(r) ==
                 [ app |-> a, det |-> r.det, smo |-> s,
                   gesture |-> <<r.gesture>>, smoothed |-> <<>>,
                   actions |-> <<>> ]
         IN  CHOOSE result \in
                 { IF ~IsInControlZone(screen, tip[1], tip[2])
                   THEN OutOfZone(r)
                   ELSE CHOOSE v \in
                            { InZone(r, sr) :
                                  sr \in { Smoother_smooth(
                                               s, tip[1], tip[2],
                                               current_time * MsPerTick,
                                               RoundDown) } } : TRUE
                   : r \in { Detect(d, hand, current_time) } } : TRUE

\* lastFrame before the first frame.  kind is what the step was ("hand",
\* "no_hand", "paused" for a frame read while paused, "toggle_pause");
\* was_dragging is the dragging flag before the step; processed is the kind
\* of the last frame that was processed, after_loss whether the frame
\* processed before this one had no hand, fresh whether the smoother was,
\* before this frame, as reset() leaves it, held whether the actions
\* dispatched so far leave the left button down, alternating whether each of
\* them found the button as it expects it.
NoFrame ==
    [ kind |-> "__init__", hands |-> <<>>, gesture |-> <<>>,
      smoothed |-> <<>>, actions |-> <<>>, was_dragging |-> FALSE,
      after_loss |-> FALSE, fresh |-> TRUE, processed |-> "__init__",
      held |-> FALSE, alternating |-> TRUE ]

(***************************************************************************)
(* EventBus (src/src/core/events.py).  A subscriber entry is the tuple     *)
(* (priority, handler) of the source with a serial number sid, which tells *)
(* the subscriptions of one handler apart and indexes bus.invoked, the     *)
(* number of times each subscription was called with a published event,    *)
(* bus.once, whether the subscription was made by subscribe_once, and      *)
(* bus.seen, the number of events recorded when it was made.               *)
(* What a handler does when it is called is fixed by its name.              *)
(***************************************************************************)
EventTypes == {"GESTURE_DETECTED", "HAND_LOST", "CURSOR_MOVED", "ERROR_OCCURRED"}

\* "canceller" calls event.cancel(), "raiser" raises an Exception, the
\* others return.
EventHandlers == {"handler", "other", "canceller", "raiser"}

Threads == {1, 2}

bus_history_size == 100

\* EventBus.__init__; a type without a list is a type with an empty list.
NewEventBus ==
    [ subscribers |-> [t \in EventTypes |-> <<>>],
      once_subscribers |-> [t \in EventTypes |-> <<>>],
      event_history |-> <<>>,
      enabled |-> TRUE,
      invoked |-> <<>>,
      once |-> <<>>,
      seen |-> <<>> ]

\* Event(type=..., cancelable=...): id tells the events apart.
NewEvent(id, type, cancelable) ==
    [ id |-> id, type |-> type, cancelable |-> cancelable,
      cancelled |-> FALSE ]

\* Mutant of EventCancel: every event can be cancelled.
EventCancel_unconditional(event) == [event EXCEPT !.cancelled = TRUE]

\* Event.cancel()
EventCancel(event) ==
    IF event.cancelable THEN [event EXCEPT !.cancelled = TRUE] ELSE event

\* Mutant of Insert: the entry goes to the end.
Insert_atEnd(sorted, e) == Append(sorted, e)

\* One step of list.sort(key=lambda x: -x[0]), which is stable: the entry
\* goes behind every entry whose priority is not lower.
Insert(sorted, e) ==
    LET k == Cardinality({ i \in 1..Len(sorted) :
                             sorted[i].priority >= e.priority })
    IN  SubSeq(sorted, 1, k) \o <<e>> \o SubSeq(sorted, k + 1, Len(sorted))

RECURSIVE SortByPriority(_)
SortByPriority(s) ==
    IF s = <<>> THEN <<>>
    ELSE Insert(SortByPriority(SubSeq(s, 1, Len(s) - 1)), s[Len(s)])

\* Mutant of Subscribe: the list is written back without the entries it
\* held, as an update that is not atomic can lose them.
Subscribe_overwrite(b, event_type, handler, priority) ==
    LET entry == [ priority |-> priority, handler |-> handler,
                   sid |-> Len(b.invoked) + 1 ]
    IN  [b EXCEPT !.subscribers[event_type] = <<entry>>,
                  !.invoked = Append(@, 0),
                  !.once = Append(@, FALSE),
                  !.seen = Append(@, Len(b.event_history))]

\* subscribe(event_type, handler, priority)
Subscribe(b, event_type, handler, priority) ==
    LET entry == [ priority |-> priority, handler |-> handler,
                   sid |-> Len(b.invoked) + 1 ]
    IN  [b EXCEPT !.subscribers[event_type] = SortByPriority(Append(@, entry)),
                  !.invoked = Append(@, 0),
                  !.once = Append(@, FALSE),
                  !.seen = Append(@, Len(b.event_history))]

\* subscribe_once(event_type, handler, priority)
SubscribeOnce(b, event_type, handler, priority) ==
    LET entry == [ priority |-> priority, handler |-> handler,
                   sid |-> Len(b.invoked) + 1 ]
    IN  [b EXCEPT !.once_subscribers[event_type] =
                      SortByPriority(Append(@, entry)),
                  !.invoked = Append(@, 0),
                  !.once = Append(@, TRUE),
                  !.seen = Append(@, Len(b.event_history))]

\* Mutant of Unsubscribe: only the first entry of the handler goes.
Unsubscribe_first(b, event_type, handler) ==
    LET list == b.subscribers[event_type]
        hits == { i \in 1..Len(list) : list[i].handler = handler }
    IN  IF hits = {} THEN b
        ELSE LET k == CHOOSE i \in hits : \A j \in hits : i <= j
             IN  [b EXCEPT !.subscribers[event_type] =
                               SubSeq(list, 1, k - 1)
                               \o SubSeq(list, k + 1, Len(list))]

\* _unsubscribe(event_type, handler), which the function returned by
\* subscribe calls
Unsubscribe(b, event_type, handler) ==
    [b EXCEPT !.subscribers[event_type] =
                  SelectSeq(@, LAMBDA e : e.handler # handler)]

\* _unsubscribe_once(event_type, handler), which the function returned by
\* subscribe_once calls
UnsubscribeOnce(b, event_type, handler) ==
    [b EXCEPT !.once_subscribers[event_type] =
                  SelectSeq(@, LAMBDA e : e.handler # handler)]

\* _record_event(event)
RecordEvent(b, event) ==
    LET h == Append(b.event_history, event.id)
    IN  [b EXCEPT !.event_history =
                      IF Len(h) > bus_history_size
                      THEN SubSeq(h, Len(h) - bus_history_size + 1, Len(h))
                      ELSE h]

\* Mutant of PublishEnabled: publish does not look at the flag.
PublishEnabled_always(b) == TRUE

\* publish: if not self._enabled: return False
PublishEnabled(b) == b.enabled

\* publish, the block under the lock: the handlers to call, sorted, and the
\* bus with the one-time list of the type emptied.
Collect(b, event) ==
    [ handlers_to_call |->
          SortByPriority(b.subscribers[event.type]
                         \o b.once_subscribers[event.type]),
      bus |-> [b EXCEPT !.once_subscribers[event.type] = <<>>] ]

\* A call of a handler: the entry called and the event it was given (0 for
\* the error event built by _handle_error).
HandlerCall(entry, id) ==
    [ handler |-> entry.handler, priority |-> entry.priority,
      sid |-> entry.sid, event |-> id ]

\* Mutant of HandleError: the error is dropped.
HandleError_silent(b, event) == <<>>

\* _handle_error(event, handler, error): the calls it makes.  A raise of
\* an error subscriber is swallowed there.
HandleError(b, event) ==
    IF event.type # "ERROR_OCCURRED"
    THEN [ i \in 1..Len(b.subscribers["ERROR_OCCURRED"]) |->
               HandlerCall(b.subscribers["ERROR_OCCURRED"][i], 0) ]
    ELSE <<>>

\* One pass of publish's loop body for an entry: handler(event) and, if it
\* raised, _handle_error.
CallHandler(b, event, entry) ==
    [ event |-> IF entry.handler = "canceller" THEN EventCancel(event)
                ELSE event,
      raised |-> entry.handler = "raiser",
      calls |-> <<HandlerCall(entry, event.id)>>
                \o (IF entry.handler = "raiser" THEN HandleError(b, event)
                    ELSE <<>>),
      bus |-> [b EXCEPT !.invoked[entry.sid] = @ + 1] ]

\* enable(), disable()
Enable(b) == [b EXCEPT !.enabled = TRUE]

Disable(b) == [b EXCEPT !.enabled = FALSE]

\* A thread that is not inside publish.
IdleThread ==
    [ pc |-> "idle", via |-> "", event |-> <<>>, handlers_to_call |-> <<>>,
      i |-> 0, calls |-> <<>>, raises |-> 0, before |-> <<>> ]

NoThreads == [t \in Threads |-> IdleThread]

\* lastBus before any call.  events counts the events created; for a publish or emit, event is the event as it was
\* left, ret what was returned, refused whether the bus was found
\* disabled, handlers_to_call the entries collected, calls the handler
\* calls made in order, raises the number of handlers of the event that
\* raised, before the bus as it was when the handlers were collected.
NoBusCall ==
    [ events |-> 0, op |-> "__init__", thread |-> 0,
      event |-> <<>>, ret |-> <<>>, refused |-> FALSE,
      handlers_to_call |-> <<>>, calls |-> <<>>, raises |-> 0,
      before |-> <<>> ]

(***************************************************************************)
(* GestureRecorder (src/src/gestures/recorder.py).  recording is <<>> for  *)
(* None and <<n>> for a recording of n frames; playback_thread is 0 for    *)
(* None or the number of the thread play() created last; threads gives     *)
(* every playback thread its position in playback_loop ("none": not        *)
(* created, "start": before _set_state(PLAYING), "loop": in the while      *)
(* loop, "end": before _set_state(IDLE), "dead": finished) and its loop    *)
(* argument; main is where the caller of the public methods stands         *)
(* ("join": inside stop_playback, waiting in join) and what it goes on     *)
(* with; last is the last step taken, its result and the state it found.   *)
(* The recorder takes no lock.  Times are left out but for the frame-rate  *)
(* limit, whose outcome is an input of record_frame.                       *)
(***************************************************************************)
MaxPlays == 2

MaxFramesRec == 1

PlaybackIds == 1..MaxPlays

NewRecorder ==
    [ state |-> "IDLE", recording |-> <<>>, stop_event |-> FALSE,
      playback_thread |-> 0,
      threads |-> [id \in PlaybackIds |-> [pc |-> "none", loop |-> FALSE]],
      main |-> [pc |-> "idle", then |-> "", loop |-> FALSE],
      last |-> [op |-> "__init__", ret |-> FALSE, before |-> "IDLE"] ]

\* _set_state(state), with no state-change callback registered
SetState(r, state) == [r EXCEPT !.state = state]

\* stop_recording()
StopRecording(r) ==
    IF r.state = "IDLE" THEN r
    ELSE SetState([r EXCEPT !.recording = <<>>], "IDLE")

\* start_recording()
StartRecording(r) ==
    LET r1 == IF r.state # "IDLE" THEN StopRecording(r) ELSE r
    IN  SetState([r1 EXCEPT !.recording = <<0>>], "RECORDING")

\* pause_recording()
PauseRecording(r) ==
    IF r.state = "RECORDING" THEN SetState(r, "PAUSED") ELSE r

\* resume_recording()
ResumeRecording(r) ==
    IF r.state = "PAUSED" THEN SetState(r, "RECORDING") ELSE r

\* record_frame(gesture): the recorder afterwards and the value returned;
\* in_time says whether _min_frame_interval has passed since the last frame.
RecordFrame(r, gesture_type, in_time) ==
    IF r.state # "RECORDING" \/ r.recording = <<>>
    THEN [ rec |-> r, ret |-> FALSE ]
    ELSE IF gesture_type \in {"NONE", "FIST"}
    THEN [ rec |-> r, ret |-> FALSE ]
    ELSE IF ~in_time
    THEN [ rec |-> r, ret |-> FALSE ]
    ELSE [ rec |-> [r EXCEPT !.recording = <<r.recording[1] + 1>>],
           ret |-> TRUE ]

\* self._playback_thread.is_alive()
ThreadAlive(r) ==
    /\ r.playback_thread # 0
    /\ r.threads[r.playback_thread].pc # "dead"

\* play() after its call of stop_playback: the stop event is cleared and a
\* new thread is created and started.
StartPlayback(r, loop) ==
    LET id == CHOOSE i \in PlaybackIds :
                  /\ r.threads[i].pc = "none"
                  /\ \A j \in PlaybackIds : r.threads[j].pc = "none" => i <= j
    IN  [r EXCEPT !.stop_event = FALSE,
                  !.threads[id] = [pc |-> "start", loop |-> loop],
                  !.playback_thread = id]

\* stop_playback() after its join: the thread is forgotten, the state IDLE.
EndStopPlayback(r) == SetState([r EXCEPT !.playback_thread = 0], "IDLE")

(***************************************************************************)
(* Spec: one machine, driven by its public methods                         *)
(***************************************************************************)
\* Registered callbacks, all lists together.
Registered(m) ==
    LET RECURSIVE Sum(_, _)
        Sum(d, S) == IF S = {} THEN 0
                     ELSE LET x == CHOOSE x \in S : TRUE
                          IN  Len(d[x]) + Sum(d, S \ {x})
    IN  Len(m.callbacks)
        + Sum(m.enter_callbacks, DOMAIN m.enter_callbacks)
        + Sum(m.exit_callbacks, DOMAIN m.exit_callbacks)

\* What lastOp holds for a call: its name and arguments, the state it was
\* made in, whether the table had an entry, the target of the transition,
\* the return value, the callbacks called and whether an exception left it.
Op(name, state, gesture, old, hit, target, ret, trace, exc) ==
    [ name |-> name, state |-> state, gesture |-> gesture, old |-> old,
      hit |-> hit, target |-> target, ret |-> ret, trace |-> trace,
      exc |-> exc ]

NoOp(name, m) == Op(name, None, None, m.state, FALSE, None, <<>>, <<>>, FALSE)

Init ==
    /\ now = 0
    /\ sm = NewMachine("IDLE", 0)
    /\ lastOp = NoOp("__init__", sm)
    /\ steps = 0
    /\ det = NewDetector
    /\ lastDet = NoDetect
    /\ obs = NoPinches
    /\ oef = NewOneEuroFilter(min_cutoff, beta, d_cutoff)
    /\ smo = NewSmoother
    /\ lastFlt = NoFilterCall
    /\ twin = NoTwin
    /\ scr = NewScreenManager
    /\ lastScr = NoScreenCall
    /\ app = NewApp
    /\ lastFrame = NoFrame
    /\ bus = NewEventBus
    /\ thr = NoThreads
    /\ lastBus = NoBusCall
    /\ rec = NewRecorder

Tick ==
    /\ now < MaxTime
    /\ now' = now + 1
    /\ lastOp' = NoOp("tick", sm)
    /\ UNCHANGED <<sm, steps, det, lastDet, obs, oef, smo, lastFlt, twin, scr, lastScr, app, lastFrame, bus, thr, lastBus, rec>>

ProcessGestureStep ==
    \E gesture \in GestureInputs :
        LET r == ProcessGesture(sm, gesture, now)
            key == <<sm.state, gesture>>
            hit == key \in DOMAIN sm.transitions
        IN  /\ Len(r.m.history) <= MaxHistory
            /\ sm' = r.m
            /\ lastOp' = Op("process_gesture", None, gesture, sm.state, hit,
                            IF hit THEN sm.transitions[key] ELSE None,
                            r.ret, r.trace, r.exc)
            /\ UNCHANGED <<now, steps, det, lastDet, obs, oef, smo, lastFlt, twin, scr, lastScr, app, lastFrame, bus, thr, lastBus, rec>>

ForceStateStep ==
    \E state \in ForceStates, gesture \in ForceGestures :
        LET r == ForceState(sm, state, gesture, now)
        IN  /\ Len(r.m.history) <= MaxHistory
            /\ sm' = r.m
            /\ lastOp' = Op("force_state", state, gesture, sm.state, FALSE,
                            state, r.ret, r.trace, r.exc)
            /\ UNCHANGED <<now, steps, det, lastDet, obs, oef, smo, lastFlt, twin, scr, lastScr, app, lastFrame, bus, thr, lastBus, rec>>

OnStateChangeStep(maxCb) ==
    \E cb \in CallbackIds :
        /\ Registered(sm) < maxCb
        /\ OnStateChange(sm, cb).callbacks \in CallbackLists
        /\ sm' = OnStateChange(sm, cb)
        /\ lastOp' = NoOp("on_state_change", sm)
        /\ UNCHANGED <<now, steps, det, lastDet, obs, oef, smo, lastFlt, twin, scr, lastScr, app, lastFrame, bus, thr, lastBus, rec>>

OnEnterStep(maxCb) ==
    \E state \in EnterRegStates, cb \in CallbackIds :
        /\ Registered(sm) < maxCb
        /\ OnEnter(sm, state, cb).enter_callbacks[state] \in CallbackLists
        /\ sm' = OnEnter(sm, state, cb)
        /\ lastOp' = NoOp("on_enter", sm)
        /\ UNCHANGED <<now, steps, det, lastDet, obs, oef, smo, lastFlt, twin, scr, lastScr, app, lastFrame, bus, thr, lastBus, rec>>

OnExitStep(maxCb) ==
    \E state \in ExitRegStates, cb \in CallbackIds :
        /\ Registered(sm) < maxCb
        /\ OnExit(sm, state, cb).exit_callbacks[state] \in CallbackLists
        /\ sm' = OnExit(sm, state, cb)
        /\ lastOp' = NoOp("on_exit", sm)
        /\ UNCHANGED <<now, steps, det, lastDet, obs, oef, smo, lastFlt, twin, scr, lastScr, app, lastFrame, bus, thr, lastBus, rec>>

SetStateDataStep ==
    \E key \in DataKeys :
        /\ sm' = SetStateData(sm, key, 1)
        /\ lastOp' = NoOp("set_state_data", sm)
        /\ UNCHANGED <<now, steps, det, lastDet, obs, oef, smo, lastFlt, twin, scr, lastScr, app, lastFrame, bus, thr, lastBus, rec>>

SetTransitionStep ==
    \E from_state \in EditStates, gesture \in EditGestures,
       to_state \in EditTargets :
        /\ sm' = SetTransition(sm, from_state, gesture, to_state)
        /\ lastOp' = Op("set_transition", from_state, gesture, sm.state,
                        FALSE, to_state, <<>>, <<>>, FALSE)
        /\ UNCHANGED <<now, steps, det, lastDet, obs, oef, smo, lastFlt, twin, scr, lastScr, app, lastFrame, bus, thr, lastBus, rec>>

RemoveTransitionStep ==
    \E from_state \in EditStates, gesture \in EditGestures :
        /\ sm' = RemoveTransition(sm, from_state, gesture).m
        /\ lastOp' = Op("remove_transition", from_state, gesture, sm.state,
                        <<from_state, gesture>> \in DOMAIN sm.transitions,
                        None, <<>>, <<>>,
                        RemoveTransition(sm, from_state, gesture).exc)
        /\ UNCHANGED <<now, steps, det, lastDet, obs, oef, smo, lastFlt, twin, scr, lastScr, app, lastFrame, bus, thr, lastBus, rec>>

\* Spec: callbacks and transitions under the default table.
Next ==
    \/ Tick
    \/ ProcessGestureStep
    \/ ForceStateStep
    \/ OnStateChangeStep(MaxCallbacks)
    \/ OnEnterStep(MaxCallbacks)
    \/ OnExitStep(MaxCallbacks)
    \/ SetStateDataStep

Spec == Init /\ [][Next]_vars

\* SpecTable: the transition table edited at run time.
NextTable ==
    \/ Tick
    \/ ProcessGestureStep
    \/ ForceStateStep
    \/ SetTransitionStep
    \/ RemoveTransitionStep
    \/ OnStateChangeStep(MaxCallbacksT)
    \/ SetStateDataStep

SpecTable == Init /\ [][NextTable]_vars

(***************************************************************************)
(* SpecGestures: any MaxGestures gestures, of every type, given to a fresh *)
(* machine by process_gesture.                                             *)
(***************************************************************************)
MaxGestures == 4

GesturesFeed ==
    \E gesture \in GestureType :
        /\ steps < MaxGestures
        /\ \E r \in {ProcessGesture(sm, gesture, now)} :
               /\ sm' = r.m
               /\ lastOp' = Op("process_gesture", None, gesture, sm.state,
                               <<sm.state, gesture>> \in DOMAIN sm.transitions,
                               r.ret[2], r.ret, r.trace, r.exc)
        /\ steps' = steps + 1
        /\ UNCHANGED <<now, det, lastDet, obs, oef, smo, lastFlt, twin, scr, lastScr, app, lastFrame, bus, thr, lastBus, rec>>

NextGestures == GesturesFeed

SpecGestures == Init /\ [][NextGestures]_vars

(***************************************************************************)
(* SpecLive: subscribers that call back into the machine are registered    *)
(* and MaxStepsLive gestures are given to it.                              *)
(***************************************************************************)
MaxStepsLive == 3

MaxCallbacksLive == 2

LiveCallbacks == {"f", "u", "p", "c"}

LiveGestures == {"POINTER", "FIST"}

LiveSubscribeStep ==
    \E cb \in LiveCallbacks :
        /\ Len(sm.callbacks) < MaxCallbacksLive
        /\ \A i \in 1..Len(sm.callbacks) : sm.callbacks[i] # cb
        /\ sm' = OnStateChange(sm, cb)
        /\ lastOp' = NoOp("on_state_change", sm)
        /\ UNCHANGED <<now, steps, det, lastDet, obs, oef, smo, lastFlt, twin, scr, lastScr, app, lastFrame, bus, thr, lastBus, rec>>

LiveProcessGestureStep ==
    \E gesture \in LiveGestures :
        /\ steps < MaxStepsLive
        /\ \E r \in {ProcessGestureLive(sm, gesture, now)} :
               /\ sm' = r.m
               /\ lastOp' = Op("process_gesture", None, gesture, sm.state,
                               <<sm.state, gesture>> \in DOMAIN sm.transitions,
                               r.ret[2], r.ret, r.trace, FALSE)
        /\ steps' = steps + 1
        /\ UNCHANGED <<now, det, lastDet, obs, oef, smo, lastFlt, twin, scr, lastScr, app, lastFrame, bus, thr, lastBus, rec>>

NextLive ==
    \/ LiveSubscribeStep
    \/ LiveProcessGestureStep

SpecLive == Init /\ [][NextLive]_vars

(***************************************************************************)
(* SpecRec: the public methods of a GestureRecorder called one after the   *)
(* other by one caller, while the playback threads take their steps.       *)
(***************************************************************************)
RecGestures == {"POINTER", "FIST"}

RecStep(op, ret, r) ==
    /\ rec' = [r EXCEPT !.last = [op |-> op, ret |-> ret,
                                  before |-> rec.state]]
    /\ UNCHANGED <<sm, now, lastOp, steps, det, lastDet, obs, oef, smo,
                   lastFlt, twin, scr, lastScr, app, lastFrame, bus, thr,
                   lastBus>>

RecStartRecording ==
    /\ rec.main.pc = "idle"
    /\ RecStep("start_recording", FALSE, StartRecording(rec))

RecStopRecording ==
    /\ rec.main.pc = "idle"
    /\ RecStep("stop_recording", rec.recording # <<>>, StopRecording(rec))

RecPauseRecording ==
    /\ rec.main.pc = "idle"
    /\ RecStep("pause_recording", FALSE, PauseRecording(rec))

RecResumeRecording ==
    /\ rec.main.pc = "idle"
    /\ RecStep("resume_recording", FALSE, ResumeRecording(rec))

RecRecordFrame ==
    \E gesture_type \in RecGestures, in_time \in BOOLEAN :
        /\ rec.main.pc = "idle"
        /\ \E r \in {RecordFrame(rec, gesture_type, in_time)} :
               /\ r.rec.recording # <<>> => r.rec.recording[1] <= MaxFramesRec
               /\ RecStep("record_frame", r.ret, r.rec)

\* stop_playback() up to its join: the event is set; with no live thread
\* the method goes on to its end.
BeginStopPlayback(then, loop) ==
    LET r == [rec EXCEPT !.stop_event = TRUE]
    IN  IF ThreadAlive(r)
        THEN RecStep(then, FALSE,
                     [r EXCEPT !.main = [pc |-> "join", then |-> then,
                                         loop |-> loop]])
        ELSE IF then = "play"
        THEN RecStep("play", FALSE, StartPlayback(EndStopPlayback(r), loop))
        ELSE RecStep("stop_playback", FALSE, EndStopPlayback(r))

\* play(recording, loop=loop)
RecPlay ==
    \E loop \in BOOLEAN :
        /\ rec.main.pc = "idle"
        /\ \E id \in PlaybackIds : rec.threads[id].pc = "none"
        /\ IF rec.state = "PLAYING"
           THEN BeginStopPlayback("play", loop)
           ELSE RecStep("play", FALSE, StartPlayback(rec, loop))

\* stop_playback()
RecStopPlayback ==
    /\ rec.main.pc = "idle"
    /\ BeginStopPlayback("stop_playback", FALSE)

\* join(timeout=1.0) returns, the thread finished or not, and stop_playback
\* and the play that called it go on to their end.
RecJoinReturn ==
    /\ rec.main.pc = "join"
    /\ LET r == EndStopPlayback([rec EXCEPT !.main = NewRecorder.main])
       IN  IF rec.main.then = "play"
           THEN RecStep("play", FALSE, StartPlayback(r, rec.main.loop))
           ELSE RecStep("stop_playback", FALSE, r)

\* playback_loop: _set_state(PLAYING)
PlaybackBegin ==
    \E id \in PlaybackIds :
        /\ rec.threads[id].pc = "start"
        /\ RecStep("playback_begin", FALSE,
                   SetState([rec EXCEPT !.threads[id].pc = "loop"],
                            "PLAYING"))

\* playback_loop: the frames are played, once or until the stop event is
\* set, and the while loop is left.
PlaybackRun ==
    \E id \in PlaybackIds :
        /\ rec.threads[id].pc = "loop"
        /\ rec.stop_event \/ ~rec.threads[id].loop
        /\ RecStep("playback_run", FALSE,
                   [rec EXCEPT !.threads[id].pc = "end"])

\* playback_loop: _set_state(IDLE), and the thread ends
PlaybackEnd ==
    \E id \in PlaybackIds :
        /\ rec.threads[id].pc = "end"
        /\ RecStep("playback_end", FALSE,
                   SetState([rec EXCEPT !.threads[id].pc = "dead"], "IDLE"))

NextRec ==
    \/ RecStartRecording
    \/ RecStopRecording
    \/ RecPauseRecording
    \/ RecResumeRecording
    \/ RecRecordFrame
    \/ RecPlay
    \/ RecStopPlayback
    \/ RecJoinReturn
    \/ PlaybackBegin
    \/ PlaybackRun
    \/ PlaybackEnd

SpecRec == Init /\ [][NextRec]_vars

(***************************************************************************)
(* SpecReset: reset(s) between transitions, with callbacks registered.     *)
(***************************************************************************)
ResetStates == {"IDLE", "POINTING"}

ResetStep ==
    \E state \in ResetStates :
        /\ sm' = Reset(sm, state, now)
        /\ lastOp' = Op("reset", state, None, sm.state, FALSE, state,
                        <<>>, <<>>, FALSE)
        /\ UNCHANGED <<now, steps, det, lastDet, obs, oef, smo, lastFlt, twin, scr, lastScr, app, lastFrame, bus, thr, lastBus, rec>>

NextReset ==
    \/ Tick
    \/ ProcessGestureStep
    \/ ResetStep
    \/ OnStateChangeStep(MaxCallbacksT)
    \/ OnExitStep(MaxCallbacksT)
    \/ SetStateDataStep

SpecReset == Init /\ [][NextReset]_vars

(***************************************************************************)
(* SpecHist: the bounded history.  The machine is constructed; either any  *)
(* MaxSteps calls follow, or first history_size - 1 transitions (Pointer   *)
(* and Fist in turn) and then any MaxSteps calls.  Each call takes a tick. *)
(***************************************************************************)
InitHist ==
    /\ sm = NewMachine("IDLE", 0)
    /\ now = 0
    /\ lastOp = NoOp("__init__", sm)
    /\ steps \in {0, -(history_size - 1)}
    /\ det = NewDetector
    /\ lastDet = NoDetect
    /\ obs = NoPinches
    /\ oef = NewOneEuroFilter(min_cutoff, beta, d_cutoff)
    /\ smo = NewSmoother
    /\ lastFlt = NoFilterCall
    /\ twin = NoTwin
    /\ scr = NewScreenManager
    /\ lastScr = NoScreenCall
    /\ app = NewApp
    /\ lastFrame = NoFrame
    /\ bus = NewEventBus
    /\ thr = NoThreads
    /\ lastBus = NoBusCall
    /\ rec = NewRecorder

\* One of the transitions that fill the history.
HistWarm ==
    /\ steps < 0
    /\ LET gesture == IF sm.state = "IDLE" THEN "POINTER" ELSE "FIST"
           r == ProcessGesture(sm, gesture, now)
       IN  /\ sm' = r.m
           /\ lastOp' = Op("process_gesture", None, gesture, sm.state, TRUE,
                           sm.transitions[<<sm.state, gesture>>],
                           r.ret, r.trace, r.exc)
    /\ steps' = steps + 1
    /\ now' = now + 1
    /\ UNCHANGED <<det, lastDet, obs, oef, smo, lastFlt, twin, scr, lastScr, app, lastFrame, bus, thr, lastBus, rec>>

HistStep(m, op) ==
    /\ steps >= 0
    /\ steps < MaxSteps
    /\ steps' = steps + 1
    /\ now' = now + 1
    /\ sm' = m
    /\ lastOp' = op
    /\ UNCHANGED <<det, lastDet, obs, oef, smo, lastFlt, twin, scr, lastScr, app, lastFrame, bus, thr, lastBus, rec>>

HistProcessGesture ==
    \E gesture \in HistGestures :
        LET r == ProcessGesture(sm, gesture, now)
            key == <<sm.state, gesture>>
            hit == key \in DOMAIN sm.transitions
        IN  HistStep(r.m, Op("process_gesture", None, gesture, sm.state, hit,
                             IF hit THEN sm.transitions[key] ELSE None,
                             r.ret, r.trace, r.exc))

HistForceState ==
    \E state \in ForceStates, gesture \in ForceGestures :
        LET r == ForceState(sm, state, gesture, now)
        IN  HistStep(r.m, Op("force_state", state, gesture, sm.state, FALSE,
                             state, r.ret, r.trace, r.exc))

HistClearHistory == HistStep(ClearHistory(sm), NoOp("clear_history", sm))

HistReset == HistStep(Reset(sm, "IDLE", now), NoOp("reset", sm))

HistSetStateData ==
    \E key \in DataKeys :
        HistStep(SetStateData(sm, key, 1), NoOp("set_state_data", sm))

NextHist ==
    \/ HistWarm
    \/ HistProcessGesture
    \/ HistForceState
    \/ HistClearHistory
    \/ HistReset
    \/ HistSetStateData

SpecHist == InitHist /\ [][NextHist]_vars

(***************************************************************************)
(* SpecSeq: the gesture types of the end-to-end sequence fed in order to a *)
(* fresh machine, while time passes and the scratch data is written.       *)
(***************************************************************************)
Script ==
    [i \in 1..10 |-> "POINTER"] \o <<"CLICK", "CLICK">>
        \o <<"CLICK_HOLD", "CLICK_HOLD", "CLICK_HOLD">>

SeqFeed ==
    /\ steps < Len(Script)
    /\ LET gesture == Script[steps + 1]
           r == ProcessGesture(sm, gesture, now)
           key == <<sm.state, gesture>>
           hit == key \in DOMAIN sm.transitions
       IN  /\ sm' = r.m
           /\ lastOp' = Op("process_gesture", None, gesture, sm.state, hit,
                           IF hit THEN sm.transitions[key] ELSE None,
                           r.ret, r.trace, r.exc)
    /\ steps' = steps + 1
    /\ UNCHANGED <<now, det, lastDet, obs, oef, smo, lastFlt, twin, scr, lastScr, app, lastFrame, bus, thr, lastBus, rec>>

NextSeq ==
    \/ SeqFeed
    \/ Tick
    \/ SetStateDataStep

SpecSeq == Init /\ [][NextSeq]_vars

(***************************************************************************)
(* SpecDet: one detector shown a hand frame after frame, time passing      *)
(* between the frames.                                                     *)
(***************************************************************************)
InitDet ==
    /\ now = DetStart
    /\ sm = NewMachine("IDLE", DetStart)
    /\ lastOp = NoOp("__init__", sm)
    /\ steps = 0
    /\ det = NewDetector
    /\ lastDet = NoDetect
    /\ obs = NoPinches
    /\ oef = NewOneEuroFilter(min_cutoff, beta, d_cutoff)
    /\ smo = NewSmoother
    /\ lastFlt = NoFilterCall
    /\ twin = NoTwin
    /\ scr = NewScreenManager
    /\ lastScr = NoScreenCall
    /\ app = NewApp
    /\ lastFrame = NoFrame
    /\ bus = NewEventBus
    /\ thr = NoThreads
    /\ lastBus = NoBusCall
    /\ rec = NewRecorder

DetectStep ==
    \E hand \in Hands :
        LET r == Detect(det, hand, now)
        IN  /\ r.gesture.frames <= MaxFrames
            /\ det' = r.det
            /\ lastDet' = [ called |-> TRUE,
                            hand |-> hand,
                            click_state |-> det.click_state,
                            is_thumb_index_pinch |-> r.is_thumb_index_pinch,
                            is_thumb_middle_pinch |-> r.is_thumb_middle_pinch,
                            gesture |-> r.gesture ]
            /\ UNCHANGED <<sm, now, lastOp, steps, obs, oef, smo, lastFlt, twin, scr, lastScr, app, lastFrame, bus, thr, lastBus, rec>>

TickDet ==
    \E d \in DetTimeSteps :
        /\ now + d <= DetStart + MaxTimeDet
        /\ now' = now + d
        /\ UNCHANGED <<sm, lastOp, steps, det, lastDet, obs, oef, smo, lastFlt, twin, scr, lastScr, app, lastFrame, bus, thr, lastBus, rec>>

NextDet ==
    \/ DetectStep
    \/ TickDet

SpecDet == InitDet /\ [][NextDet]_vars

(***************************************************************************)
(* SpecClick: one detector shown the hands of a pinch, the clock advancing *)
(* between the frames, and reset() called at any point.                    *)
(***************************************************************************)
\* detect(hand) for a hand of the given set.
DetectOf(hands, maxFrames) ==
    \E hand \in hands :
        LET r == Detect(det, hand, now)
        IN  /\ r.gesture.frames <= maxFrames
            /\ det' = r.det
            /\ lastDet' = [ called |-> TRUE,
                            hand |-> hand,
                            click_state |-> det.click_state,
                            is_thumb_index_pinch |-> r.is_thumb_index_pinch,
                            is_thumb_middle_pinch |-> r.is_thumb_middle_pinch,
                            gesture |-> r.gesture ]
            /\ UNCHANGED <<sm, now, lastOp, steps, oef, smo, lastFlt, twin, scr, lastScr, app, lastFrame, bus, thr, lastBus, rec>>

\* time passing between two calls.
TickOf(timeSteps, maxTime) ==
    \E d \in timeSteps :
        /\ now + d <= DetStart + maxTime
        /\ now' = now + d
        /\ UNCHANGED <<sm, lastOp, steps, det, lastDet, obs, oef, smo, lastFlt, twin, scr, lastScr, app, lastFrame, bus, thr, lastBus, rec>>

\* reset(): there is no previous call any more.
DetectorResetStep ==
    /\ lastDet.called
    /\ det' = DetectorReset(det)
    /\ lastDet' = NoDetect
    /\ UNCHANGED <<sm, now, lastOp, steps, obs, oef, smo, lastFlt, twin, scr, lastScr, app, lastFrame, bus, thr, lastBus, rec>>

ClickDetectStep == DetectOf(ClickHands, MaxFramesClick) /\ UNCHANGED obs

ClickTick == TickOf(ClickTimeSteps, MaxTimeClick)

NextClick ==
    \/ ClickDetectStep
    \/ ClickTick
    \/ DetectorResetStep

SpecClick == InitDet /\ [][NextClick]_vars

(***************************************************************************)
(* SpecScroll: one detector shown scroll hands at varying heights and      *)
(* hands of other gestures, and reset() called at any point.               *)
(***************************************************************************)
ScrollDetectStep == DetectOf(ScrollHands, MaxFramesScroll) /\ UNCHANGED obs

NextScroll ==
    \/ ScrollDetectStep
    \/ DetectorResetStep

SpecScroll == InitDet /\ [][NextScroll]_vars

(***************************************************************************)
(* SpecRelease: one detector shown pinches and their releases, watched by  *)
(* the observer.                                                           *)
(***************************************************************************)
RelDetectStep ==
    /\ DetectOf(RelHands, MaxFramesRel)
    /\ obs' = Observe(obs, lastDet'.gesture.type, lastDet'.is_thumb_index_pinch,
                      det'.click_count, now)

RelTick == TickOf(RelTimeSteps, MaxTimeRel)

NextRelease ==
    \/ RelDetectStep
    \/ RelTick

SpecRelease == InitDet /\ [][NextRelease]_vars

(***************************************************************************)
(* SpecFilter: one OneEuroFilter, or one Smoother, with the default        *)
(* parameters, given samples whose timestamps come in any order, and reset *)
(* at any point.                                                           *)
(***************************************************************************)
MaxSamples == 4

MaxSmoothSamples == 8

MaxResets == 1

\* 0.0 and 1.0
FilterValues == {0, 1000000}

FilterTimes == {0, 16, 32}

\* The points (x, y) given to the smoother: the second is the first moved by
\* less than the jitter threshold, the third by more.
SmoothPoints ==
    {<<500000, 500000>>, <<501000, 500000>>, <<503000, 501000>>}

\* The time between two samples of the smoother, in ms.
SmoothPeriods == {16}

InitFilterOf(f) ==
    /\ now = DetStart
    /\ sm = NewMachine("IDLE", DetStart)
    /\ lastOp = NoOp("__init__", sm)
    /\ steps = 0
    /\ det = NewDetector
    /\ lastDet = NoDetect
    /\ obs = NoPinches
    /\ oef = f
    /\ smo = NewSmoother
    /\ twin = NoTwin
    /\ scr = NewScreenManager
    /\ lastScr = NoScreenCall
    /\ app = NewApp
    /\ lastFrame = NoFrame
    /\ bus = NewEventBus
    /\ thr = NoThreads
    /\ lastBus = NoBusCall
    /\ rec = NewRecorder
    /\ \E obj \in {"oef", "smo"} : lastFlt = [NoFilterCall EXCEPT !.obj = obj]

InitFilter == InitFilterOf(NewOneEuroFilter(min_cutoff, beta, d_cutoff))

\* oef.filter(value, timestamp) for a sample of the given sets.
FilterOf(values, times, rnds, maxSamples) ==
    /\ lastFlt.obj = "oef"
    /\ lastFlt.n < maxSamples
    /\ \E value \in values, timestamp \in times, rnd \in rnds :
        LET r == OneEuroFilter_filter(oef, value, timestamp, rnd)
        IN  /\ oef' = r.f
            /\ lastFlt' = [lastFlt EXCEPT
                   !.op = "filter",
                   !.value = <<value>>,
                   !.timestamp = timestamp,
                   !.late = /\ oef.last_time # <<>>
                            /\ timestamp <= oef.last_time[1],
                   !.out = r.out,
                   !.te = r.te,
                   !.raised = r.raised,
                   !.n = @ + 1,
                   !.since = @ + 1]
    /\ UNCHANGED <<sm, now, lastOp, steps, det, lastDet, obs, smo, twin, scr, lastScr, app, lastFrame, bus, thr, lastBus, rec>>

\* What lastFlt says after a reset().
AfterReset(held) ==
    [lastFlt EXCEPT !.op = "reset", !.value = <<>>, !.timestamp = 0,
                    !.late = FALSE, !.out = <<>>, !.te = <<>>,
                    !.raised = FALSE, !.since = 0, !.resets = @ + 1,
                    !.held = held]

\* oef.reset()
FilterResetStep ==
    /\ lastFlt.obj = "oef"
    /\ lastFlt.op = "filter"
    /\ lastFlt.resets < MaxResets
    /\ oef' = OneEuroFilter_reset(oef)
    /\ lastFlt' = AfterReset(oef.x_filter.last_value)
    /\ UNCHANGED <<sm, now, lastOp, steps, det, lastDet, obs, smo, twin, scr, lastScr, app, lastFrame, bus, thr, lastBus, rec>>

\* smo.smooth(x, y, timestamp)
SmoothStep ==
    /\ lastFlt.obj = "smo"
    /\ lastFlt.n < MaxSmoothSamples
    /\ \E pt \in SmoothPoints, dt \in SmoothPeriods :
        LET x == pt[1]
            y == pt[2]
            timestamp == lastFlt.timestamp + dt
            r == Smoother_smooth(smo, x, y, timestamp, RoundDown)
        IN  /\ smo' = r.s
            /\ lastFlt' = [lastFlt EXCEPT
                   !.op = "smooth",
                   !.value = <<x, y>>,
                   !.timestamp = timestamp,
                   !.late = /\ smo.x_filter.last_time # <<>>
                            /\ timestamp <= smo.x_filter.last_time[1],
                   !.out = r.out,
                   !.te = <<>>,
                   !.raised = r.raised,
                   !.n = @ + 1,
                   !.since = @ + 1]
    /\ UNCHANGED <<sm, now, lastOp, steps, det, lastDet, obs, oef, twin, scr, lastScr, app, lastFrame, bus, thr, lastBus, rec>>

\* smo.reset()
SmootherResetStep ==
    /\ lastFlt.obj = "smo"
    /\ lastFlt.op = "smooth"
    /\ lastFlt.resets < MaxResets
    /\ smo' = Smoother_reset(smo)
    /\ lastFlt' = AfterReset(<<smo.jitter_count, smo.extra>>)
    /\ UNCHANGED <<sm, now, lastOp, steps, det, lastDet, obs, oef, twin, scr, lastScr, app, lastFrame, bus, thr, lastBus, rec>>

FilterStep == FilterOf(FilterValues, FilterTimes, {RoundDown}, MaxSamples)

NextFilter ==
    \/ FilterStep
    \/ FilterResetStep
    \/ SmoothStep
    \/ SmootherResetStep

SpecFilter == InitFilter /\ [][NextFilter]_vars

(***************************************************************************)
(* SpecConst: one OneEuroFilter with min_cutoff = 1.0 and beta = 0.007     *)
(* given the same value again and again, at increasing timestamps.         *)
(***************************************************************************)
Samples == 100

\* min_cutoff = 1.0, beta = 0.007
const_min_cutoff == 1000

const_beta == 7

\* 50.0 and 33.333333
ConstValues == {50000000, 33333333}

\* The time between two samples, in ms.
ConstPeriods == {16}

InitConst ==
    /\ InitFilterOf(NewOneEuroFilter(const_min_cutoff, const_beta, d_cutoff))
    /\ lastFlt.obj = "oef"

\* oef.filter(v, timestamp) for the behaviour's value v.
ConstStep ==
    \E dt \in ConstPeriods :
        FilterOf(IF lastFlt.value = <<>>
                 THEN ConstValues
                 ELSE {lastFlt.value[1]},
                 {lastFlt.timestamp + dt}, Roundings, Samples)

NextConst == ConstStep

SpecConst == InitConst /\ [][NextConst]_vars

(***************************************************************************)
(* SpecAxes: two Smoothers with the default parameters given, sample after *)
(* sample, the same coordinate on one axis and the same timestamp; on the  *)
(* other axis smo is given a coordinate that stays where it is and twin's  *)
(* smoother any coordinate.                                                *)
(***************************************************************************)
MaxAxesSamples == 8

\* The coordinates of the shared axis: 0.5 and 0.501.
AxesShared == {500000, 501000}

\* The coordinate smo is given on the other axis, and those twin is given.
AxesStill == 500000

AxesOthers == {500000, 600000}

InitAxes ==
    /\ InitFilter
    /\ lastFlt.obj = "smo"

\* The point with c on the given axis and o on the other.
AxesPoint(axis, c, o) == IF axis = 1 THEN <<c, o>> ELSE <<o, c>>

\* smo.smooth and twin's smooth, with the same timestamp.
AxesStep ==
    /\ lastFlt.n < MaxAxesSamples
    /\ \E axis \in IF twin.value = <<>> THEN {1, 2} ELSE {twin.axis},
          c \in AxesShared, o \in AxesOthers, dt \in SmoothPeriods :
        LET timestamp == lastFlt.timestamp + dt
            p1 == AxesPoint(axis, c, AxesStill)
            p2 == AxesPoint(axis, c, o)
            r1 == Smoother_smooth(smo, p1[1], p1[2], timestamp, RoundDown)
            r2 == Smoother_smooth(twin.s, p2[1], p2[2], timestamp, RoundDown)
        IN  /\ smo' = r1.s
            /\ twin' = [ s |-> r2.s, axis |-> axis, value |-> p2,
                         out |-> r2.out ]
            /\ lastFlt' = [lastFlt EXCEPT
                   !.op = "smooth",
                   !.value = p1,
                   !.timestamp = timestamp,
                   !.out = r1.out,
                   !.raised = r1.raised \/ r2.raised,
                   !.n = @ + 1,
                   !.since = @ + 1]
    /\ UNCHANGED <<sm, now, lastOp, steps, det, lastDet, obs, oef, scr,
                   lastScr, app, lastFrame, bus, thr, lastBus, rec>>

NextAxes == AxesStep

SpecAxes == InitAxes /\ [][NextAxes]_vars

(***************************************************************************)
(* SpecScreen: one ScreenManager with some primary display, control zone   *)
(* and sensitivity, asked to convert camera coordinates inside and outside *)
(* the zone and the image; the zone and the sensitivity change between     *)
(* calls.                                                                  *)
(***************************************************************************)
\* Zones with x_min < x_max and y_min < y_max.
Zones ==
    { DefaultZone,
      [ x_min |-> 0, x_max |-> 1000000, y_min |-> 0, y_max |-> 1000000 ],
      [ x_min |-> 200000, x_max |-> 600000,
        y_min |-> 0, y_max |-> 1000000 ] }

\* 0.1, 0.5, 1.0, 1.5 and 5.0
Sensitivities == {1, 5, 10, 15, 50}

\* A display at the origin, and one to the left of and above the origin.
Screens ==
    { DefaultScreen,
      [ x |-> 0 - 1280, y |-> 0 - 200, width |-> 1280, height |-> 720 ] }

\* Camera coordinates: outside the image, the zones' bounds and centres,
\* and points between them.
CamXs ==
    { 0 - 3000000, 0, 150000, 200000, 333333, 400000, 500000, 600000,
      850000, 1000000, 2500000 }

CamYs == { 0 - 1, 0, 150000, 500000, 850000, 1000000 }

InitScreen ==
    /\ now = DetStart
    /\ sm = NewMachine("IDLE", DetStart)
    /\ lastOp = NoOp("__init__", sm)
    /\ steps = 0
    /\ det = NewDetector
    /\ lastDet = NoDetect
    /\ obs = NoPinches
    /\ oef = NewOneEuroFilter(min_cutoff, beta, d_cutoff)
    /\ smo = NewSmoother
    /\ lastFlt = NoFilterCall
    /\ twin = NoTwin
    /\ \E zone \in Zones, sensitivity \in Sensitivities, screen \in Screens :
           scr = [ sensitivity |-> sensitivity,
                   control_zone |-> zone,
                   primary_screen |-> screen ]
    /\ lastScr = NoScreenCall
    /\ app = NewApp
    /\ lastFrame = NoFrame
    /\ bus = NewEventBus
    /\ thr = NoThreads
    /\ lastBus = NoBusCall
    /\ rec = NewRecorder

\* scr.camera_to_screen(x, y, use_zone)
CameraToScreenStep ==
    \E x \in CamXs, y \in CamYs, use_zone \in BOOLEAN :
        /\ lastScr' = [ op |-> "camera_to_screen", x |-> x, y |-> y,
                        use_zone |-> use_zone,
                        out |-> CameraToScreen(scr, x, y, use_zone) ]
        /\ UNCHANGED <<sm, now, lastOp, steps, det, lastDet, obs, oef, smo,
                       lastFlt, twin, scr, app, lastFrame, bus, thr, lastBus, rec>>

\* scr.normalize_to_zone(x, y)
NormalizeToZoneStep ==
    \E x \in CamXs, y \in CamYs :
        /\ lastScr' = [ op |-> "normalize_to_zone", x |-> x, y |-> y,
                        use_zone |-> TRUE,
                        out |-> NormalizeToZone(scr, x, y) ]
        /\ UNCHANGED <<sm, now, lastOp, steps, det, lastDet, obs, oef, smo,
                       lastFlt, twin, scr, app, lastFrame, bus, thr, lastBus, rec>>

\* scr.set_sensitivity(sensitivity)
SetSensitivityStep ==
    \E sensitivity \in Sensitivities \cup {0, 60} :
        /\ scr' = SetSensitivity(scr, sensitivity)
        /\ lastScr' = [NoScreenCall EXCEPT !.op = "set_sensitivity"]
        /\ UNCHANGED <<sm, now, lastOp, steps, det, lastDet, obs, oef, smo,
                       lastFlt, twin, app, lastFrame, bus, thr, lastBus, rec>>

\* scr.set_control_zone(...)
SetControlZoneStep ==
    \E zone \in Zones :
        /\ scr' = SetControlZone(scr, zone)
        /\ lastScr' = [NoScreenCall EXCEPT !.op = "set_control_zone"]
        /\ UNCHANGED <<sm, now, lastOp, steps, det, lastDet, obs, oef, smo,
                       lastFlt, twin, app, lastFrame, bus, thr, lastBus, rec>>

NextScreen ==
    \/ CameraToScreenStep
    \/ NormalizeToZoneStep
    \/ SetSensitivityStep
    \/ SetControlZoneStep

SpecScreen == InitScreen /\ [][NextScreen]_vars

(***************************************************************************)
(* SpecApp: the main loop given frame after frame, with a hand inside or   *)
(* outside the control zone or with no hand, the clock advancing between   *)
(* the frames, and the pause key pressed at any point.                     *)
(***************************************************************************)
MaxTimeApp == 15

AppTimeSteps == {3, 6}

\* A pinching hand, a pointing hand and an open palm.
AppHands ==
    { [fingers |-> {"index"}, thumb_index_dist |-> 6,
       thumb_middle_dist |-> 12],
      [fingers |-> {"index"}, thumb_index_dist |-> 12,
       thumb_middle_dist |-> 12],
      [fingers |-> {"thumb", "index", "middle", "ring", "pinky"},
       thumb_index_dist |-> 12, thumb_middle_dist |-> 12] }

\* Fingertips: inside the default zone, on its corner, and outside it.
AppTips == { <<50, 50>>, <<85, 15>>, <<10, 50>> }

\* What the tracker returns for a frame.
AppFrames ==
    { <<>> } \cup
    { << [ hand |-> [ fingers |-> h.fingers,
                      thumb_index_dist |-> h.thumb_index_dist,
                      thumb_middle_dist |-> h.thumb_middle_dist,
                      index_y |-> tip[2] ],
           tip |-> tip ] >> : h \in AppHands, tip \in AppTips }

InitApp == InitDet

\* One pass of the loop's body: a frame is read and, unless the
\* application is paused, processed.
FrameStep ==
    \E d \in AppTimeSteps, hands \in AppFrames :
        /\ lastFrame.kind # "cleanup"
        /\ now + d <= DetStart + MaxTimeApp
        /\ now' = now + d
        /\ IF app.is_paused
           THEN /\ lastFrame' = [lastFrame EXCEPT
                       !.kind = "paused", !.hands = hands,
                       !.gesture = <<>>, !.smoothed = <<>>,
                       !.actions = <<>>,
                       !.was_dragging = app.is_dragging]
                /\ UNCHANGED <<app, det, smo>>
           ELSE \E r \in {ProcessFrame(app, det, smo, scr, hands, now')} :
                    /\ app' = r.app
                    /\ det' = r.det
                    /\ smo' = r.smo
                    /\ lastFrame' =
                           [ kind |-> IF hands = <<>> THEN "no_hand"
                                      ELSE "hand",
                             hands |-> hands,
                             gesture |-> r.gesture,
                             smoothed |-> r.smoothed,
                             actions |-> r.actions,
                             was_dragging |-> app.is_dragging,
                             after_loss |-> lastFrame.processed = "no_hand",
                             fresh |-> smo = Smoother_reset(smo),
                             processed |-> IF hands = <<>> THEN "no_hand"
                                           ELSE "hand",
                             held |-> ButtonAfter(lastFrame.held, r.actions),
                             alternating |->
                                 /\ lastFrame.alternating
                                 /\ ButtonsAlternate(lastFrame.held,
                                                     r.actions) ]
        /\ UNCHANGED <<sm, lastOp, steps, lastDet, obs, oef, lastFlt, twin,
                       scr, lastScr, bus, thr, lastBus, rec>>

\* The key p: _toggle_pause()
TogglePauseStep ==
    /\ lastFrame.kind \notin {"toggle_pause", "cleanup"}
    /\ \E r \in {TogglePause(app)} :
           /\ app' = r.app
           /\ lastFrame' = [lastFrame EXCEPT
                  !.kind = "toggle_pause", !.hands = <<>>,
                  !.gesture = <<>>, !.smoothed = <<>>,
                  !.actions = r.actions,
                  !.was_dragging = app.is_dragging,
                  !.held = ButtonAfter(@, r.actions),
                  !.alternating = @ /\ ButtonsAlternate(lastFrame.held,
                                                        r.actions)]
    /\ UNCHANGED <<sm, now, lastOp, steps, det, lastDet, obs, oef, smo,
                   lastFlt, twin, scr, lastScr, bus, thr, lastBus, rec>>

\* The loop ends (key q, the tray's quit, a failed read, an interrupt between
\* two frames) and run() calls _cleanup(); no frame is processed afterwards.
CleanupStep ==
    /\ lastFrame.kind # "cleanup"
    /\ \E r \in {Cleanup(app)} :
           /\ app' = r.app
           /\ lastFrame' = [lastFrame EXCEPT
                  !.kind = "cleanup", !.hands = <<>>,
                  !.gesture = <<>>, !.smoothed = <<>>,
                  !.actions = r.actions,
                  !.was_dragging = app.is_dragging,
                  !.held = ButtonAfter(@, r.actions),
                  !.alternating = @ /\ ButtonsAlternate(lastFrame.held,
                                                        r.actions)]
    /\ UNCHANGED <<sm, now, lastOp, steps, det, lastDet, obs, oef, smo,
                   lastFlt, twin, scr, lastScr, bus, thr, lastBus, rec>>

NextApp ==
    \/ FrameStep
    \/ TogglePauseStep
    \/ CleanupStep

SpecApp == InitApp /\ [][NextApp]_vars

(***************************************************************************)
(* The EventBus driven by its public methods.  publish is taken a step at  *)
(* a time, as the code takes and gives back the lock: the test of the      *)
(* enabled flag (no lock), _record_event (lock), the collection of the     *)
(* handlers (lock), then one handler call per step (no lock; an error is   *)
(* dispatched under the lock before the next handler) and the return.      *)
(* quiet restricts the other calls to the moments no publish is under way. *)
(***************************************************************************)
AllIdle == \A t \in Threads : thr[t].pc = "idle"

\* lastBus after a call other than publish and emit.
BusCalled(op, t) ==
    [ events |-> lastBus.events, op |-> op, thread |-> t,
      event |-> <<>>, ret |-> <<>>, refused |-> FALSE,
      handlers_to_call |-> <<>>, calls |-> <<>>, raises |-> 0,
      before |-> <<>> ]

UnchangedButBus ==
    UNCHANGED <<sm, now, lastOp, steps, det, lastDet, obs, oef, smo, lastFlt,
                twin, scr, lastScr, app, lastFrame, rec>>

\* bus.subscribe(event_type, handler, priority)
BusSubscribeOf(subs, maxsubs, quiet) ==
    /\ Len(bus.invoked) < maxsubs
    /\ quiet => AllIdle
    /\ \E s \in subs :
           /\ ~s.once
           /\ bus' = Subscribe(bus, s.type, s.handler, s.priority)
    /\ lastBus' = BusCalled("subscribe", 0)
    /\ UNCHANGED thr
    /\ UnchangedButBus

\* bus.subscribe_once(event_type, handler, priority)
BusSubscribeOnceOf(subs, maxsubs, quiet) ==
    /\ Len(bus.invoked) < maxsubs
    /\ quiet => AllIdle
    /\ \E s \in subs :
           /\ s.once
           /\ bus' = SubscribeOnce(bus, s.type, s.handler, s.priority)
    /\ lastBus' = BusCalled("subscribe_once", 0)
    /\ UNCHANGED thr
    /\ UnchangedButBus

\* publish(event), emit(event_type): the call and its test of the flag.
BusBeginOf(t, via, events, maxpublishes) ==
    /\ thr[t].pc = "idle"
    /\ lastBus.events < maxpublishes
    /\ \E e \in events :
           LET event == NewEvent(lastBus.events + 1, e.type, e.cancelable)
           IN  IF ~PublishEnabled(bus)
               THEN /\ lastBus' =
                           [ events |-> lastBus.events + 1, op |-> via,
                             thread |-> t, event |-> event, ret |-> <<FALSE>>,
                             refused |-> TRUE, handlers_to_call |-> <<>>,
                             calls |-> <<>>, raises |-> 0,
                             before |-> <<>> ]
                    /\ UNCHANGED thr
               ELSE /\ lastBus' = [lastBus EXCEPT !.events = @ + 1]
                    /\ thr' = [thr EXCEPT ![t] =
                                  [IdleThread EXCEPT !.pc = "record",
                                                     !.via = via,
                                                     !.event = event]]
    /\ UNCHANGED bus
    /\ UnchangedButBus

\* publish: self._record_event(event)
BusRecord(t) ==
    /\ thr[t].pc = "record"
    /\ bus' = RecordEvent(bus, thr[t].event)
    /\ thr' = [thr EXCEPT ![t].pc = "collect"]
    /\ UNCHANGED lastBus
    /\ UnchangedButBus

\* publish: the handlers are collected and sorted
BusCollect(t) ==
    /\ thr[t].pc = "collect"
    /\ LET c == Collect(bus, thr[t].event)
       IN  /\ bus' = c.bus
           /\ thr' = [thr EXCEPT ![t].pc = "call",
                                 ![t].handlers_to_call = c.handlers_to_call,
                                 ![t].i = 1,
                                 ![t].before = <<bus>>]
    /\ UNCHANGED lastBus
    /\ UnchangedButBus

\* publish: one pass of the loop over handlers_to_call
BusCall(t) ==
    /\ thr[t].pc = "call"
    /\ thr[t].i <= Len(thr[t].handlers_to_call)
    /\ ~thr[t].event.cancelled
    /\ LET r == CallHandler(bus, thr[t].event,
                            thr[t].handlers_to_call[thr[t].i])
       IN  /\ bus' = r.bus
           /\ thr' = [thr EXCEPT ![t].event = r.event,
                                 ![t].i = @ + 1,
                                 ![t].calls = @ \o r.calls,
                                 ![t].raises =
                                     IF r.raised THEN @ + 1 ELSE @]
    /\ UNCHANGED lastBus
    /\ UnchangedButBus

\* publish: the loop is left and not event.cancelled returned
BusReturn(t) ==
    /\ thr[t].pc = "call"
    /\ \/ thr[t].i > Len(thr[t].handlers_to_call)
       \/ thr[t].event.cancelled
    /\ lastBus' =
           [ events |-> lastBus.events, op |-> thr[t].via, thread |-> t,
             event |-> thr[t].event,
             ret |-> <<~thr[t].event.cancelled>>, refused |-> FALSE,
             handlers_to_call |-> thr[t].handlers_to_call,
             calls |-> thr[t].calls, raises |-> thr[t].raises,
             before |-> thr[t].before ]
    /\ thr' = [thr EXCEPT ![t] = IdleThread]
    /\ UNCHANGED bus
    /\ UnchangedButBus

\* bus.enable()
BusEnableOf(quiet) ==
    /\ ~bus.enabled
    /\ quiet => AllIdle
    /\ bus' = Enable(bus)
    /\ lastBus' = BusCalled("enable", 0)
    /\ UNCHANGED thr
    /\ UnchangedButBus

\* bus.disable()
BusDisableOf(quiet) ==
    /\ bus.enabled
    /\ quiet => AllIdle
    /\ bus' = Disable(bus)
    /\ lastBus' = BusCalled("disable", 0)
    /\ UNCHANGED thr
    /\ UnchangedButBus

(***************************************************************************)
(* SpecBus: one thread; subscriptions, publishes and emits of three event  *)
(* types with handlers that return, cancel or raise, and the bus switched  *)
(* off and on.                                                             *)
(***************************************************************************)
MaxSubs == 3

MaxPublishes == 2

Sub(type, handler, priority, once) ==
    [ type |-> type, handler |-> handler, priority |-> priority,
      once |-> once ]

BusSubs ==
    { Sub("GESTURE_DETECTED", "handler", 0, FALSE),
      Sub("GESTURE_DETECTED", "other", 0, FALSE),
      Sub("GESTURE_DETECTED", "canceller", 5, FALSE),
      Sub("GESTURE_DETECTED", "handler", 0, TRUE),
      Sub("HAND_LOST", "handler", 0, FALSE) }

\* The events publish is given, and those emit builds.
BusEvents == [type : {"GESTURE_DETECTED"}, cancelable : BOOLEAN]

EmitEvents == [type : {"GESTURE_DETECTED"}, cancelable : {FALSE}]

InitBus == InitDet

BusSubscribeStep == BusSubscribeOf(BusSubs, MaxSubs, TRUE)

BusSubscribeOnceStep == BusSubscribeOnceOf(BusSubs, MaxSubs, TRUE)

BusPublishStep == BusBeginOf(1, "publish", BusEvents, MaxPublishes)

BusEmitStep == BusBeginOf(1, "emit", EmitEvents, MaxPublishes)

BusRecordStep == BusRecord(1)

BusCollectStep == BusCollect(1)

BusCallStep == BusCall(1)

BusReturnStep == BusReturn(1)

BusEnableStep == BusEnableOf(TRUE)

BusDisableStep == BusDisableOf(TRUE)

NextBus ==
    \/ BusSubscribeStep
    \/ BusSubscribeOnceStep
    \/ BusPublishStep
    \/ BusEmitStep
    \/ BusRecordStep
    \/ BusCollectStep
    \/ BusCallStep
    \/ BusReturnStep
    \/ BusEnableStep
    \/ BusDisableStep

SpecBus == InitBus /\ [][NextBus]_vars

(***************************************************************************)
(* SpecBusErr: one thread; handlers that raise, subscribers of             *)
(* ERROR_OCCURRED that return or raise, regular and one-time, and          *)
(* publishes of GESTURE_DETECTED and of ERROR_OCCURRED itself.             *)
(***************************************************************************)
ErrSubs ==
    { Sub("GESTURE_DETECTED", "raiser", 5, FALSE),
      Sub("GESTURE_DETECTED", "handler", 0, FALSE),
      Sub("ERROR_OCCURRED", "handler", 0, FALSE),
      Sub("ERROR_OCCURRED", "raiser", 10, FALSE),
      Sub("ERROR_OCCURRED", "other", 0, TRUE) }

ErrEvents ==
    [type : {"GESTURE_DETECTED", "ERROR_OCCURRED"}, cancelable : {FALSE}]

ErrSubscribeStep == BusSubscribeOf(ErrSubs, MaxSubs, TRUE)

ErrSubscribeOnceStep == BusSubscribeOnceOf(ErrSubs, MaxSubs, TRUE)

ErrPublishStep == BusBeginOf(1, "publish", ErrEvents, MaxPublishes)

NextBusErr ==
    \/ ErrSubscribeStep
    \/ ErrSubscribeOnceStep
    \/ ErrPublishStep
    \/ BusRecordStep
    \/ BusCollectStep
    \/ BusCallStep
    \/ BusReturnStep

SpecBusErr == InitBus /\ [][NextBusErr]_vars

(***************************************************************************)
(* SpecBusConc: two threads publish on one bus, their steps interleaved,   *)
(* while subscriptions, one-time ones among them, are made at any moment.  *)
(***************************************************************************)
MaxSubsConc == 2

MaxPublishesConc == 2

ConcSubs ==
    { Sub("GESTURE_DETECTED", "handler", 0, TRUE),
      Sub("GESTURE_DETECTED", "canceller", 5, FALSE) }

\* The events published: cancelable, so that a canceller cancels them.
ConcEvents == [type : {"GESTURE_DETECTED"}, cancelable : {TRUE}]

ConcSubscribeStep == BusSubscribeOf(ConcSubs, MaxSubsConc, FALSE)

ConcSubscribeOnceStep == BusSubscribeOnceOf(ConcSubs, MaxSubsConc, FALSE)

ConcPublishStep ==
    \E t \in Threads : BusBeginOf(t, "publish", ConcEvents, MaxPublishesConc)

ConcRecordStep == \E t \in Threads : BusRecord(t)

ConcCollectStep == \E t \in Threads : BusCollect(t)

ConcCallStep == \E t \in Threads : BusCall(t)

ConcReturnStep == \E t \in Threads : BusReturn(t)

NextBusConc ==
    \/ ConcSubscribeStep
    \/ ConcSubscribeOnceStep
    \/ ConcPublishStep
    \/ ConcRecordStep
    \/ ConcCollectStep
    \/ ConcCallStep
    \/ ConcReturnStep

SpecBusConc == InitBus /\ [][NextBusConc]_vars

(***************************************************************************)
(* SpecBusPub: two threads emit events of one type, their steps            *)
(* interleaved, while regular handlers of the type are subscribed at any   *)
(* moment.                                                                 *)
(***************************************************************************)
MaxSubsPub == 2

MaxPublishesPub == 2

PubSubs == { Sub("CURSOR_MOVED", "handler", 0, FALSE) }

PubEvents == [type : {"CURSOR_MOVED"}, cancelable : {FALSE}]

PubSubscribeStep == BusSubscribeOf(PubSubs, MaxSubsPub, FALSE)

PubEmitStep ==
    \E t \in Threads : BusBeginOf(t, "emit", PubEvents, MaxPublishesPub)

NextBusPub ==
    \/ PubSubscribeStep
    \/ PubEmitStep
    \/ ConcRecordStep
    \/ ConcCollectStep
    \/ ConcCallStep
    \/ ConcReturnStep

SpecBusPub == InitBus /\ [][NextBusPub]_vars

(***************************************************************************)
(* SpecBusUnsub: handlers are subscribed and unsubscribed at any moment,   *)
(* also while a publish is between two of its steps, as another thread or  *)
(* a handler of the publish can do.                                        *)
(***************************************************************************)
MaxSubsUnsub == 2

MaxPublishesUnsub == 1

UnsubSubs ==
    { Sub("GESTURE_DETECTED", "handler", 0, FALSE),
      Sub("GESTURE_DETECTED", "other", 0, FALSE),
      Sub("HAND_LOST", "handler", 0, FALSE),
      Sub("GESTURE_DETECTED", "handler", 0, TRUE) }

\* The functions returned by subscribe, by their type and handler.
Unsubscribers == [type : {"GESTURE_DETECTED", "HAND_LOST"},
                  handler : {"handler", "other"}]

UnsubEvents == [type : {"GESTURE_DETECTED"}, cancelable : {FALSE}]

UnsubSubscribeStep == BusSubscribeOf(UnsubSubs, MaxSubsUnsub, FALSE)

UnsubSubscribeOnceStep == BusSubscribeOnceOf(UnsubSubs, MaxSubsUnsub, FALSE)

\* unsubscribe(), the function subscribe(type, handler) returned; lastBus
\* keeps its type and handler in event.
BusUnsubscribeStep ==
    /\ \E u \in Unsubscribers :
           /\ bus' = Unsubscribe(bus, u.type, u.handler)
           /\ lastBus' = [BusCalled("unsubscribe", 0) EXCEPT
                              !.event = <<u.type, u.handler>>]
    /\ UNCHANGED thr
    /\ UnchangedButBus

UnsubPublishStep == BusBeginOf(1, "publish", UnsubEvents, MaxPublishesUnsub)

NextBusUnsub ==
    \/ UnsubSubscribeStep
    \/ UnsubSubscribeOnceStep
    \/ BusUnsubscribeStep
    \/ UnsubPublishStep
    \/ BusRecordStep
    \/ BusCollectStep
    \/ BusCallStep
    \/ BusReturnStep

SpecBusUnsub == InitBus /\ [][NextBusUnsub]_vars

(***************************************************************************)
(* Properties of GestureStateMachine                                       *)
(***************************************************************************)
\* The list a dict of callback lists holds for a state.
ListOf(d, state) == IF state \in DOMAIN d THEN d[state] ELSE <<>>

IsTransitionOp(op) == op.name \in {"process_gesture", "force_state"}

\* What a callback reads from the machine.
View(m) ==
    [ state          |-> m.state,
      previous_state |-> m.previous_state,
      entered_at     |-> m.entered_at,
      state_data     |-> m.state_data ]

CbsOf(trace) == [i \in 1..Len(trace) |-> trace[i].cb]

KindsOf(trace) == [i \in 1..Len(trace) |-> trace[i].kind]

\* C1: on every transition to a different state by process_gesture or
\* force_state the calls are: the exit callbacks of the old state in
\* registration order, each still reading the old state and its bookkeeping;
\* then the enter callbacks of the new state in registration order, reading
\* state = new, previous_state = old, entered_at = the time of the call and
\* empty scratch data; then the state-change subscribers in registration
\* order, each called with (old, new, gesture).
C1_TransitionOrder ==
    [][ (IsTransitionOp(lastOp') /\ sm'.state # sm.state) =>
          LET old == sm.state
              new == sm'.state
              ex == ListOf(sm.exit_callbacks, old)
              en == ListOf(sm.enter_callbacks, new)
              ch == sm.callbacks
              tr == lastOp'.trace
              updated == [ state          |-> new,
                           previous_state |-> old,
                           entered_at     |-> now,
                           state_data     |-> EmptyDict ]
          IN  /\ Len(tr) = Len(ex) + Len(en) + Len(ch)
              /\ \A i \in 1..Len(ex) :
                    /\ tr[i].kind = "exit"
                    /\ tr[i].cb = ex[i]
                    /\ tr[i].args = <<>>
                    /\ tr[i].seen = View(sm)
              /\ \A i \in 1..Len(en) :
                    LET c == tr[Len(ex) + i]
                    IN  /\ c.kind = "enter"
                        /\ c.cb = en[i]
                        /\ c.args = <<>>
                        /\ c.seen = updated
              /\ \A i \in 1..Len(ch) :
                    LET c == tr[Len(ex) + Len(en) + i]
                    IN  /\ c.kind = "change"
                        /\ c.cb = ch[i]
                        /\ c.args = <<old, new, lastOp'.gesture>>
                        /\ c.seen = updated
              /\ View(sm') = updated
      ]_vars

\* C1 witness: a transition that called an exit callback, an enter callback
\* and a subscriber, left scratch data behind and got a new timestamp.
C1_Witness ==
    /\ IsTransitionOp(lastOp)
    /\ lastOp.old # sm.state
    /\ KindsOf(lastOp.trace) = <<"exit", "enter", "change">>
    /\ sm.history # <<>>
    /\ sm.history[Len(sm.history)].data # EmptyDict
    /\ sm.history[Len(sm.history)].entered_at < sm.entered_at

\* C2: process_gesture(g) in a state s without table entry (s, g) returns
\* (s, s), leaves state, previous_state, entered_at, the scratch data and
\* the history as they were and calls no callback; with the default entries
\* for Pointer, Pointer in Idle moves to Pointing with one history entry and
\* Pointer in Pointing changes nothing.
C2_MissingEntryNoOp ==
    [][ (lastOp'.name = "process_gesture") =>
          LET g == lastOp'.gesture
              s == sm.state
              unchanged == /\ lastOp'.ret = <<s, s>>
                           /\ View(sm') = View(sm)
                           /\ sm'.history = sm.history
                           /\ lastOp'.trace = <<>>
                           /\ ~lastOp'.exc
          IN  /\ (<<s, g>> \notin DOMAIN sm.transitions) => unchanged
              /\ ( /\ g = "POINTER"
                   /\ <<"IDLE", g>> \in DOMAIN sm.transitions
                   /\ sm.transitions[<<"IDLE", g>>] = "POINTING"
                   /\ <<"POINTING", g>> \notin DOMAIN sm.transitions )
                 => /\ (s = "IDLE") =>
                          /\ sm'.state = "POINTING"
                          /\ lastOp'.ret = <<"IDLE", "POINTING">>
                          /\ Len(sm'.history) = Len(sm.history) + 1
                    /\ (s = "POINTING") => unchanged
      ]_vars

\* C2 witness: Pointer processed in Pointing, reached from Idle, with an
\* enter callback of Pointing and a subscriber registered and time passed.
C2_Witness ==
    /\ lastOp.name = "process_gesture"
    /\ lastOp.gesture = "POINTER"
    /\ lastOp.old = "POINTING"
    /\ ~lastOp.hit
    /\ sm.previous_state = "IDLE"
    /\ Len(sm.history) = 1
    /\ sm.callbacks # <<>>
    /\ ListOf(sm.enter_callbacks, "POINTING") # <<>>
    /\ sm.state_data # EmptyDict
    /\ sm.entered_at < now

\* C3: a transition whose target is the current state (force_state of the
\* current state, or a table entry (s, g) -> s) calls no callback, appends
\* no history entry and leaves entered_at and previous_state unchanged; the
\* current state is always exactly one ControlState.
C3_SelfTransitionNoOp ==
    /\ [](sm.state \in ControlState)
    /\ [][ ( \/ /\ lastOp'.name = "force_state"
                /\ lastOp'.state = sm.state
             \/ /\ lastOp'.name = "process_gesture"
                /\ <<sm.state, lastOp'.gesture>> \in DOMAIN sm.transitions
                /\ sm.transitions[<<sm.state, lastOp'.gesture>>] = sm.state )
           => /\ lastOp'.trace = <<>>
              /\ sm'.history = sm.history
              /\ sm'.entered_at = sm.entered_at
              /\ sm'.previous_state = sm.previous_state
              /\ sm'.state = sm.state
         ]_vars

\* C3 witness: a gesture processed through an entry (s, g) -> s, with a
\* subscriber registered, a previous state and time passed since entry.
C3_Witness ==
    /\ lastOp.name = "process_gesture"
    /\ lastOp.hit
    /\ lastOp.target = lastOp.old
    /\ sm.callbacks # <<>>
    /\ sm.entered_at < now

\* C4: when a callback called during a transition raises, no exception
\* leaves process_gesture/force_state, the callbacks called are still all
\* exit callbacks of the old state, all enter callbacks of the new state and
\* all subscribers, in this order, and the machine ends in the target state
\* with previous_state = old state and empty scratch data.
C4_CallbackIsolation ==
    [][ LET old == sm.state
            target == lastOp'.target
            ex == ListOf(sm.exit_callbacks, old)
            en == ListOf(sm.enter_callbacks, target)
            all == ex \o en \o sm.callbacks
        IN  ( /\ IsTransitionOp(lastOp')
              /\ target # None
              /\ target # old
              /\ \E i \in 1..Len(all) : all[i] \in Raising )
            => /\ ~lastOp'.exc
               /\ CbsOf(lastOp'.trace) = all
               /\ KindsOf(lastOp'.trace) =
                     [i \in 1..Len(all) |->
                         IF i <= Len(ex) THEN "exit"
                         ELSE IF i <= Len(ex) + Len(en) THEN "enter"
                         ELSE "change"]
               /\ sm'.state = target
               /\ sm'.previous_state = old
               /\ sm'.state_data = EmptyDict
      ]_vars

\* C4 witness: a transition in which an exit callback raised and an exit
\* callback, an enter callback were called after it, scratch data was set.
C4_Witness ==
    /\ IsTransitionOp(lastOp)
    /\ Len(lastOp.trace) = 3
    /\ lastOp.trace[1].kind = "exit"
    /\ lastOp.trace[1].raised
    /\ lastOp.trace[2].kind = "exit"
    /\ ~lastOp.trace[2].raised
    /\ lastOp.trace[3].raised
    /\ sm.state = lastOp.target
    /\ sm.history[Len(sm.history)].data # EmptyDict

\* The steps of a transition: the callbacks called and what each read.
StepsOf(trace) ==
    [i \in 1..Len(trace) |->
        [kind |-> trace[i].kind, cb |-> trace[i].cb, seen |-> trace[i].seen]]

\* C5: force_state(t) with t other than the current state s moves to t
\* whatever the table holds, leaves the table unchanged, and runs the steps
\* process_gesture(g) runs for a table entry (s, g) -> t: the same history
\* entry (up to the gesture recorded), the same callbacks reading the same
\* machine, the same bookkeeping.
C5_ForceStateBypassesTable ==
    [][ (lastOp'.name = "force_state" /\ lastOp'.state # sm.state) =>
          /\ sm'.state = lastOp'.state
          /\ sm'.transitions = sm.transitions
          /\ ~lastOp'.exc
          /\ \A g \in GestureInputs :
                LET viaTable == ProcessGesture(
                        SetTransition(sm, sm.state, g, lastOp'.state), g, now)
                    snap(h) == [h[Len(h)] EXCEPT !.gesture = None]
                IN  /\ StepsOf(viaTable.trace) = StepsOf(lastOp'.trace)
                    /\ View(viaTable.m) = View(sm')
                    /\ Len(viaTable.m.history) = Len(sm'.history)
                    /\ snap(viaTable.m.history) = snap(sm'.history)
                    /\ SubSeq(viaTable.m.history, 1, Len(sm'.history) - 1)
                         = SubSeq(sm'.history, 1, Len(sm'.history) - 1)
      ]_vars

\* C5 witness: force_state into Calibrating, which no table entry leads to,
\* with exit callbacks and a subscriber called.
C5_Witness ==
    /\ lastOp.name = "force_state"
    /\ lastOp.state = "CALIBRATING"
    /\ sm.state = "CALIBRATING"
    /\ \A key \in DOMAIN sm.transitions : sm.transitions[key] # "CALIBRATING"
    /\ KindsOf(lastOp.trace) = <<"exit", "exit", "change">>
    /\ sm.history # <<>>

\* C8: set_transition(s, g, t) makes the table hold (s, g) -> t, overriding
\* an earlier target; remove_transition(s, g) leaves no entry for (s, g)
\* and, for an absent entry, changes nothing and raises nothing; both leave
\* the other entries and the rest of the machine alone; process_gesture
\* follows the table as it stands when it is called.
C8_TableEdits ==
    [][ LET key == <<lastOp'.state, lastOp'.gesture>>
            others == \A k \in (DOMAIN sm.transitions \cup DOMAIN sm'.transitions)
                                \ {key} :
                          /\ k \in DOMAIN sm.transitions
                          /\ k \in DOMAIN sm'.transitions
                          /\ sm'.transitions[k] = sm.transitions[k]
            rest == [sm' EXCEPT !.transitions = sm.transitions] = sm
            pkey == <<sm.state, lastOp'.gesture>>
        IN  /\ (lastOp'.name = "set_transition") =>
                  /\ key \in DOMAIN sm'.transitions
                  /\ sm'.transitions[key] = lastOp'.target
                  /\ others
                  /\ rest
            /\ (lastOp'.name = "remove_transition") =>
                  /\ key \notin DOMAIN sm'.transitions
                  /\ others
                  /\ rest
                  /\ ~lastOp'.exc
                  /\ (key \notin DOMAIN sm.transitions) => sm' = sm
            /\ (lastOp'.name = "process_gesture") =>
                  /\ sm'.transitions = sm.transitions
                  /\ sm'.state = IF pkey \in DOMAIN sm.transitions
                                 THEN sm.transitions[pkey]
                                 ELSE sm.state
      ]_vars

\* C8 witness: a gesture processed through an entry that overrides the
\* default target of its pair.
C8_Witness ==
    /\ lastOp.name = "process_gesture"
    /\ lastOp.hit
    /\ <<lastOp.old, lastOp.gesture>> \in DOMAIN DefaultTransitions
    /\ DefaultTransitions[<<lastOp.old, lastOp.gesture>>] # lastOp.target
    /\ lastOp.target # lastOp.old
    /\ sm.state = lastOp.target

\* C6: the history never holds more than history_size entries; a
\* transition to a different state appends one snapshot of the machine as
\* it was before the change (state, entered_at, previous_state, scratch
\* data of the state left), dropping the oldest entry when the list is
\* full, so that the entries stay in chronological order; and what
\* process_gesture returns and moves to is the same for any history.
C6_BoundedHistory ==
    /\ [](Len(sm.history) <= history_size)
    /\ [][ /\ (IsTransitionOp(lastOp') /\ sm'.state # sm.state) =>
                LET snap == sm'.history[Len(sm'.history)]
                IN  /\ snap.state = sm.state
                    /\ snap.entered_at = sm.entered_at
                    /\ snap.previous_state = sm.previous_state
                    /\ snap.data = sm.state_data
                    /\ sm'.history =
                          IF Len(sm.history) < history_size
                          THEN Append(sm.history, snap)
                          ELSE Append(Tail(sm.history), snap)
           /\ (IsTransitionOp(lastOp') /\ sm'.state = sm.state) =>
                sm'.history = sm.history
           /\ (lastOp'.name = "process_gesture") =>
                \A h \in {<<>>, <<StateInfo(sm)>>, sm.history \o sm.history} :
                    LET r == ProcessGesture([sm EXCEPT !.history = h],
                                            lastOp'.gesture, now)
                    IN  /\ r.m.state = sm'.state
                        /\ r.ret = lastOp'.ret
         ]_vars

\* C6 witness: a transition made with history_size entries recorded has
\* dropped the oldest (the snapshot of the constructed machine) and shifted
\* the others by one.
C6_Witness ==
    /\ IsTransitionOp(lastOp)
    /\ lastOp.old # sm.state
    /\ Len(sm.history) = history_size
    /\ sm.history[1].state = "POINTING"
    /\ sm.history[1].previous_state = "IDLE"
    /\ sm.history[history_size].state = lastOp.old
    /\ sm.history[history_size - 1].entered_at
          < sm.history[history_size].entered_at

\* C7: with the default table, Pointer x10, Click, Click, ClickHold x3 fed
\* from Idle make three transitions, Idle->Pointing on frame 1,
\* Pointing->Clicking on frame 11 and Clicking->Dragging on frame 13; every
\* other frame leaves the state unchanged.
C7_EndToEndSequence ==
    LET left == [i \in 1..Len(sm.history) |-> sm.history[i].state]
        all == <<"IDLE", "POINTING", "CLICKING", "DRAGGING">>
        done == IF steps < 1 THEN 0
                ELSE IF steps < 11 THEN 1
                ELSE IF steps < 13 THEN 2
                ELSE 3
    IN  /\ left = SubSeq(all, 1, done)
        /\ sm.state = all[done + 1]
        /\ sm.previous_state = IF done = 0 THEN None ELSE all[done]
        /\ (lastOp.name = "process_gesture" /\ steps \notin {1, 11, 13})
              => lastOp.ret = <<sm.state, sm.state>>

\* C7 witness: the whole sequence was fed and the machine is Dragging.
C7_Witness ==
    /\ steps = Len(Script)
    /\ lastOp.name = "process_gesture"
    /\ lastOp.gesture = "CLICK_HOLD"
    /\ sm.state = "DRAGGING"
    /\ Len(sm.history) = 3


(***************************************************************************)
(* Properties of GestureDetector.detect                                    *)
(***************************************************************************)
ClickFamily == {"CLICK", "CLICK_HOLD", "DOUBLE_CLICK"}

C10_PinchHysteresis ==
    [][ /\ (~lastDet.is_thumb_index_pinch /\ lastDet'.is_thumb_index_pinch
               => lastDet'.hand.thumb_index_dist < pinch_threshold)
        /\ (lastDet.is_thumb_index_pinch /\ ~lastDet'.is_thumb_index_pinch
               => lastDet'.hand.thumb_index_dist >= pinch_release_threshold)
        /\ (~lastDet.is_thumb_middle_pinch /\ lastDet'.is_thumb_middle_pinch
               => lastDet'.hand.thumb_middle_dist < pinch_threshold)
        /\ (lastDet.is_thumb_middle_pinch /\ ~lastDet'.is_thumb_middle_pinch
               => lastDet'.hand.thumb_middle_dist >= pinch_release_threshold)
      ]_vars

(***************************************************************************)
(* Properties of the click sub-machine                                     *)
(***************************************************************************)
\* The step is a detect call (every call changes lastDet: the type or the
\* frame count), and the frame was classified in the Click family.
PinchFrame == lastDet' # lastDet /\ lastDet'.called /\ lastDet'.gesture.type \in ClickFamily

C12_HoldAfterFrames ==
    /\ (lastDet.called /\ lastDet.click_state = "IDLE"
           /\ lastDet.gesture.type \in ClickFamily /\ det.last_click_time = 0
           => lastDet.gesture.type = "CLICK")
    /\ (lastDet.called /\ lastDet.gesture.type = "CLICK"
           => lastDet.gesture.frames < click_hold_frames + 2)

(***************************************************************************)
(* Properties of click registration and double clicks                      *)
(***************************************************************************)
\* C13: of two thumb-index pinches each released in under 300 ms, when the
\* second click completes less than double_click_interval after the first,
\* the second click is classified DoubleClick and the click counter is
\* reset; when they are farther apart than double_click_interval, the second
\* is not classified DoubleClick.
C13_DoubleClickOnSecond ==
    obs.n = 2 =>
        /\ (obs.t2 - obs.t1 < double_click_interval
               => obs.dbl2 /\ obs.count2 = 0)
        /\ (obs.t2 - obs.t1 > double_click_interval => ~obs.dbl2)

\* C14: whenever a thumb-index pinch is released (a frame with no engaged
\* thumb-index pinch follows its frames), the sub-machine is Idle
\* afterwards; when the pinch lasted under 300 ms the release frame
\* registers a click, whatever it is classified as: the last-click time is
\* the time of the frame and the click counter is incremented, or restarted
\* at 1 when the last click is double_click_interval or more back; when it
\* lasted 300 ms or more, no click is registered.
C14_ReleaseRegistersClick ==
    [][ obs.ep # <<>> /\ lastDet' # lastDet /\ lastDet'.called
            /\ ~lastDet'.is_thumb_index_pinch
        => /\ det'.click_state = "IDLE"
           /\ IF now - obs.ep[1] < ShortPinch
              THEN /\ det'.last_click_time = now
                   /\ det'.click_count =
                          IF now - det.last_click_time < double_click_interval
                          THEN det.click_count + 1 ELSE 1
              ELSE /\ det'.last_click_time = det.last_click_time
                   /\ det'.click_count = det.click_count
      ]_vars

\* C15: after every detect call that returns a type outside the Click
\* family, and after reset(), the click sub-machine is Idle with no pinch
\* start time; the click sub-state is always one of Idle, Pinching, Holding.
C15_IdleOutsideClickFamily ==
    /\ det.click_state \in {"IDLE", "PINCHING", "HOLDING"}
    /\ (~lastDet.called \/ lastDet.gesture.type \notin ClickFamily
           => det.click_state = "IDLE" /\ det.pinch_start_time = 0)

\* A pinch has just been released by a frame of no gesture.
C15_Witness ==
    /\ lastDet.called
    /\ lastDet.click_state = "PINCHING"
    /\ lastDet.gesture.type = "NONE"
    /\ det.click_state = "IDLE"
    /\ det.click_count = 1

(***************************************************************************)
(* Properties of the frame counter                                         *)
(***************************************************************************)
\* C16: the frames field of the gesture a detect call returns is 1 when its
\* type differs from the type the previous call returned, or when there is
\* no previous call since construction or reset(), and is the previous
\* call's frames plus 1 when the type is the same; DoubleClick is a type of
\* its own.
C16_FrameCounter ==
    [][ lastDet' # lastDet /\ lastDet'.called
        => lastDet'.gesture.frames =
               IF lastDet.called
                      /\ lastDet.gesture.type = lastDet'.gesture.type
               THEN lastDet.gesture.frames + 1
               ELSE 1
      ]_vars

\* Five consecutive Click frames: the fifth carries 5.
C16_Witness ==
    /\ lastDet.called
    /\ lastDet.gesture.type = "CLICK"
    /\ lastDet.gesture.frames = 5

(***************************************************************************)
(* Properties of the scroll sub-logic                                      *)
(***************************************************************************)
\* C17: the first frame of a scroll episode (no scroll frame came right
\* before it) returns Scroll and only records its y as the reference; each
\* later scroll frame adds (its y - the y of the frame before) to the
\* accumulator and moves the reference: it returns ScrollDown and zeroes the
\* accumulator when the sum exceeds +scroll_threshold, ScrollUp and zeroes it
\* when the sum is below -scroll_threshold, otherwise Scroll; the
\* accumulator stays within [-scroll_threshold, +scroll_threshold]; a frame
\* outside the scroll family leaves the accumulator 0 and no reference.
C17_ScrollSubLogic ==
    [][ /\ det'.scroll_accumulator \in -scroll_threshold..scroll_threshold
        /\ lastDet' # lastDet /\ lastDet'.called =>
             LET type == lastDet'.gesture.type
                 y == lastDet'.hand.index_y
                 first == ~(lastDet.called /\ lastDet.gesture.type \in ScrollFamily)
                 acc == det.scroll_accumulator + (y - lastDet.hand.index_y)
             IN  IF type \notin ScrollFamily
                 THEN /\ det'.scroll_accumulator = 0
                      /\ det'.scroll_start_y = <<>>
                 ELSE /\ det'.scroll_start_y = <<y>>
                      /\ IF first
                         THEN type = "SCROLL" /\ det'.scroll_accumulator = 0
                         ELSE IF acc > scroll_threshold
                         THEN type = "SCROLL_DOWN" /\ det'.scroll_accumulator = 0
                         ELSE IF acc < -scroll_threshold
                         THEN type = "SCROLL_UP" /\ det'.scroll_accumulator = 0
                         ELSE type = "SCROLL" /\ det'.scroll_accumulator = acc
      ]_vars

\* Two scroll frames have brought the accumulator to exactly the threshold
\* without a scroll step being reported.
C17_Witness ==
    /\ lastDet.called
    /\ lastDet.gesture.type = "SCROLL"
    /\ lastDet.gesture.frames = 3
    /\ det.scroll_accumulator = scroll_threshold

(***************************************************************************)
(* C18  The first call of OneEuroFilter.filter after construction or after *)
(* reset() returns its input unchanged and initialises the state: the time *)
(* of the last sample is the timestamp, the value filter holds the input   *)
(* and the derivative filter holds 0.  The first call of Smoother.smooth   *)
(* after construction or reset() returns (x, y) unchanged, remembers the   *)
(* point, and has initialised both axis filters.  Whatever was filtered    *)
(* before a reset has no influence.                                        *)
(***************************************************************************)
C18_FirstCallPassesThrough ==
    /\ (lastFlt.op = "filter" /\ lastFlt.since = 1) =>
           /\ ~lastFlt.raised
           /\ lastFlt.out = lastFlt.value
           /\ oef.last_time = <<lastFlt.timestamp>>
           /\ oef.x_filter.last_value = lastFlt.value
           /\ oef.dx_filter.last_value = <<0>>
    /\ (lastFlt.op = "smooth" /\ lastFlt.since = 1) =>
           /\ ~lastFlt.raised
           /\ lastFlt.out = lastFlt.value
           /\ smo.last_x = <<lastFlt.value[1]>>
           /\ smo.last_y = <<lastFlt.value[2]>>
           /\ smo.extra = <<>>
           /\ smo.x_filter.last_time = <<lastFlt.timestamp>>
           /\ smo.y_filter.last_time = <<lastFlt.timestamp>>
           /\ smo.x_filter.x_filter.last_value = <<lastFlt.value[1]>>
           /\ smo.y_filter.x_filter.last_value = <<lastFlt.value[2]>>

\* A filter that had smoothed its way to a value other than 0.0 or 1.0 is
\* reset and then given 1.0.
C18_Witness ==
    /\ lastFlt.op = "filter"
    /\ lastFlt.since = 1
    /\ lastFlt.resets = 1
    /\ lastFlt.held # <<>>
    /\ lastFlt.held[1] \notin FilterValues
    /\ lastFlt.value = <<ValueScale>>

(***************************************************************************)
(* C19  OneEuroFilter.filter never raises on a timestamp equal to or       *)
(* earlier than the previous one: the time delta used for that sample is   *)
(* 1e-6, no division by zero occurs, a value is returned and the timestamp *)
(* becomes the time of the last sample; the calls that follow return a     *)
(* value as well.                                                          *)
(***************************************************************************)
C19_LateTimestampClamped ==
    lastFlt.op = "filter" =>
        /\ ~lastFlt.raised
        /\ Len(lastFlt.out) = 1
        /\ oef.last_time = <<lastFlt.timestamp>>
        /\ lastFlt.late => lastFlt.te = <<MinDelta>>
        /\ (lastFlt.since > 1 /\ ~lastFlt.late) =>
               /\ lastFlt.te # <<>>
               /\ lastFlt.te[1] > MinDelta

\* The third sample of a filter, at 16 ms and 16 ms after the second: the
\* second came at 0 ms, not later than the first, and the third is
\* smoothed as usual.
C19_Witness ==
    /\ lastFlt.op = "filter"
    /\ lastFlt.since = 3
    /\ lastFlt.timestamp = 16
    /\ lastFlt.te = <<16 * MicrosPerMs>>
    /\ lastFlt.value = <<ValueScale>>
    /\ lastFlt.out # <<>>
    /\ lastFlt.out[1] > 0
    /\ lastFlt.out[1] < ValueScale

(***************************************************************************)
(* C20 as stated  A constant input fed with increasing timestamps at       *)
(* min_cutoff = 1.0, beta = 0.007 is a fixed point of the filter: every    *)
(* output equals the input, so the output after 100 samples is within 1%   *)
(* of it.                                                                  *)
(***************************************************************************)
C20_ConstantIsFixedPoint ==
    lastFlt.op = "filter" =>
        /\ lastFlt.out = lastFlt.value
        /\ lastFlt.n = Samples =>
               Abs(lastFlt.out[1] - lastFlt.value[1])
                   <= Abs(lastFlt.value[1]) \div 100

(***************************************************************************)
(* C20 amended  A constant input fed with increasing timestamps at         *)
(* min_cutoff = 1.0, beta = 0.007: the first sample is returned as it is,  *)
(* every output is within 1% of the input, the output after 100 samples    *)
(* included, and differs from the input by rounding only: by at most two   *)
(* roundings for each sample filtered.                                     *)
(***************************************************************************)
C20_ConstantWithinOnePercent ==
    lastFlt.op = "filter" =>
        /\ ~lastFlt.raised
        /\ lastFlt.since = 1 => lastFlt.out = lastFlt.value
        /\ Abs(lastFlt.out[1] - lastFlt.value[1])
               <= Abs(lastFlt.value[1]) \div 100
        /\ Abs(lastFlt.out[1] - lastFlt.value[1]) <= 2 * lastFlt.n

\* The hundredth output is not the input, and within 1% of it.
C20_Witness ==
    /\ lastFlt.op = "filter"
    /\ lastFlt.n = Samples
    /\ lastFlt.out # lastFlt.value
    /\ Abs(lastFlt.out[1] - lastFlt.value[1]) <= Abs(lastFlt.value[1]) \div 100

(***************************************************************************)
(* C21  The two axes are smoothed independently: two smoothers given the   *)
(* same coordinates and timestamps on one axis return the same smoothed    *)
(* coordinates on that axis, whatever they are given on the other axis.    *)
(***************************************************************************)
C21_AxesIndependent ==
    lastFlt.op = "smooth" =>
        lastFlt.out[twin.axis] = twin.out[twin.axis]

C23_NormalizeToZone ==
    lastScr.op = "normalize_to_zone" =>
        LET zone == scr.control_zone
            nx == lastScr.out[1]
            ny == lastScr.out[2]
        IN  /\ 0 <= nx /\ nx <= NormScale
            /\ 0 <= ny /\ ny <= NormScale
            /\ 2 * lastScr.x = zone.x_min + zone.x_max => 2 * nx = NormScale
            /\ 2 * lastScr.y = zone.y_min + zone.y_max => 2 * ny = NormScale
            /\ scr.sensitivity = SensScale =>
                   /\ lastScr.x = zone.x_min => nx = 0
                   /\ lastScr.x = zone.x_max => nx = NormScale
                   /\ lastScr.y = zone.y_min => ny = 0
                   /\ lastScr.y = zone.y_max => ny = NormScale

\* The centre of a zone that is not centred in the image, at a sensitivity
\* other than 1.
C23_Witness ==
    /\ lastScr.op = "normalize_to_zone"
    /\ scr.sensitivity > SensScale
    /\ scr.control_zone.x_min + scr.control_zone.x_max # ValueScale
    /\ 2 * lastScr.x = scr.control_zone.x_min + scr.control_zone.x_max
    /\ 2 * lastScr.y = scr.control_zone.y_min + scr.control_zone.y_max
    /\ lastScr.out = <<NormScale \div 2, NormScale \div 2>>

\* C24: a frame in which the tracker reports no hand dispatches mouse_up
\* exactly when a drag was in progress and nothing else, leaves the
\* dragging flag cleared, the smoother as reset() leaves it and the
\* detector as reset() leaves it (click sub-machine IDLE, click counter 0,
\* no scroll reference, no accumulated scroll, no last gesture); the first
\* frame with a hand after it is classified with frame counter 1, and the
\* first fingertip the reset smoother is given comes back unchanged.
C24_HandLostResets ==
    /\ lastFrame.kind = "no_hand" =>
           /\ lastFrame.actions =
                  (IF lastFrame.was_dragging THEN << <<"mouse_up">> >>
                   ELSE <<>>)
           /\ ~app.is_dragging
           /\ smo = Smoother_reset(smo)
           /\ smo.x_filter.last_time = <<>>
           /\ smo.y_filter.last_time = <<>>
           /\ det = DetectorReset(det)
           /\ det.click_state = "IDLE"
           /\ det.click_count = 0
           /\ det.scroll_start_y = <<>>
           /\ det.scroll_accumulator = 0
           /\ det.gesture_frames = 0
    /\ (lastFrame.kind = "hand" /\ lastFrame.after_loss) =>
           /\ lastFrame.gesture[1].frames = 1
           /\ det.gesture_frames = 1
    /\ (lastFrame.kind = "hand" /\ lastFrame.fresh
            /\ lastFrame.smoothed # <<>>) =>
           lastFrame.smoothed =
               << lastFrame.hands[1].tip[1] * TipUnit,
                  lastFrame.hands[1].tip[2] * TipUnit >>

\* A drag in progress is released by a frame without a hand.
C24_Witness ==
    /\ lastFrame.kind = "no_hand"
    /\ lastFrame.was_dragging
    /\ lastFrame.actions = << <<"mouse_up">> >>
    /\ ~app.is_dragging
    /\ app.last_gesture # <<>>

\* hand.get_finger_tip("index") of the first hand, in the smoother's units.
IndexTip(hands) == << hands[1].tip[1] * TipUnit, hands[1].tip[2] * TipUnit >>

\* C25: a processed frame whose raw fingertip is outside the control-zone
\* rectangle (a fingertip on a bound is inside) is classified by the
\* detector, which advances as detect() advances it, and returns that
\* gesture, but dispatches no action, does not call the smoother and leaves
\* the smoother and the application's state as they were; a frame whose
\* fingertip is inside or on a bound is given to the smoother.
C25_OutsideZoneSuppressed ==
    [][ lastFrame'.kind = "hand" =>
          LET tip == IndexTip(lastFrame'.hands)
              zone == scr.control_zone
              outside == \/ tip[1] < zone.x_min
                         \/ tip[1] > zone.x_max
                         \/ tip[2] < zone.y_min
                         \/ tip[2] > zone.y_max
              r == Detect(det, lastFrame'.hands[1].hand, now')
          IN  /\ lastFrame'.gesture = <<r.gesture>>
              /\ det' = r.det
              /\ outside => /\ lastFrame'.actions = <<>>
                            /\ lastFrame'.smoothed = <<>>
                            /\ smo' = smo
                            /\ app' = app
              /\ ~outside => /\ lastFrame'.smoothed # <<>>
                             /\ smo' # smo ]_vars

\* A pinch outside the zone is classified as a click on its first frame,
\* while the smoother holds earlier samples, and nothing is dispatched.
C25_Witness ==
    /\ lastFrame.kind = "hand"
    /\ ~IsInControlZone(scr, IndexTip(lastFrame.hands)[1],
                        IndexTip(lastFrame.hands)[2])
    /\ lastFrame.gesture[1].type = "CLICK"
    /\ lastFrame.gesture[1].frames = 1
    /\ lastFrame.actions = <<>>
    /\ smo # Smoother_reset(smo)

\* The last call was a publish or an emit that went through its handlers.
Published ==
    /\ lastBus.op \in {"publish", "emit"}
    /\ ~lastBus.refused

\* The calls the last publish made with its own event.
EventCalls ==
    SelectSeq(lastBus.calls, LAMBDA c : c.event = lastBus.event.id)

\* The entries subscribed to the type of the last publish when it collected
\* its handlers: the regular ones, the one-time ones.
RegularBefore == lastBus.before[1].subscribers[lastBus.event.type]

OnceBefore == lastBus.before[1].once_subscribers[lastBus.event.type]

EntrySids(entries) == { entries[i].sid : i \in 1..Len(entries) }

\* The subscriptions of entries made again on a new bus, the last made
\* first.
RECURSIVE SubscribedBackwards(_, _, _)
SubscribedBackwards(type, regular, once) ==
    IF regular = <<>> /\ once = <<>>
    THEN NewEventBus
    ELSE LET sids == EntrySids(regular) \cup EntrySids(once)
             first == CHOOSE s \in sids : \A o \in sids : o >= s
             rest == SubscribedBackwards(
                         type,
                         SelectSeq(regular, LAMBDA e : e.sid # first),
                         SelectSeq(once, LAMBDA e : e.sid # first))
         IN  IF first \in EntrySids(regular)
             THEN LET e == regular[CHOOSE i \in 1..Len(regular) :
                                       regular[i].sid = first]
                  IN  Subscribe(rest, type, e.handler, e.priority)
             ELSE LET e == once[CHOOSE i \in 1..Len(once) :
                                    once[i].sid = first]
                  IN  SubscribeOnce(rest, type, e.handler, e.priority)

HandlersOf(entries) == [ i \in 1..Len(entries) |-> entries[i].handler ]

\* C26 as stated: a publish whose event is not cancelled calls every
\* subscription of the event's type, regular or one-time, exactly once and
\* no other, in descending priority order, and the handlers are called in
\* the same order when the same subscriptions were made in the opposite
\* order.
C26_OrderIndependent ==
    (Published /\ ~lastBus.event.cancelled) =>
        /\ Len(EventCalls) = Len(RegularBefore) + Len(OnceBefore)
        /\ \A s \in EntrySids(RegularBefore) \cup EntrySids(OnceBefore) :
               \E i \in 1..Len(EventCalls) : EventCalls[i].sid = s
        /\ \A i, j \in 1..Len(EventCalls) :
               i < j => EventCalls[i].priority >= EventCalls[j].priority
        /\ HandlersOf(EventCalls) =
               HandlersOf(Collect(SubscribedBackwards(lastBus.event.type,
                                                      RegularBefore,
                                                      OnceBefore),
                                  lastBus.event).handlers_to_call)

\* C26, amended: a publish whose event is not cancelled calls every
\* subscription of the event's type, regular or one-time, exactly once and
\* no other, in descending priority order; subscriptions of equal priority
\* are called regular before one-time and, within each kind, in the order
\* they were made.
C26_PriorityThenSubscriptionOrder ==
    (Published /\ ~lastBus.event.cancelled) =>
        /\ Len(EventCalls) = Len(RegularBefore) + Len(OnceBefore)
        /\ \A s \in EntrySids(RegularBefore) \cup EntrySids(OnceBefore) :
               \E i \in 1..Len(EventCalls) : EventCalls[i].sid = s
        /\ \A i, j \in 1..Len(EventCalls) :
               i < j =>
                   LET a == EventCalls[i]
                       b == EventCalls[j]
                       a_once == a.sid \in EntrySids(OnceBefore)
                       b_once == b.sid \in EntrySids(OnceBefore)
                   IN  \/ a.priority > b.priority
                       \/ /\ a.priority = b.priority
                          /\ \/ ~a_once /\ b_once
                             \/ a_once = b_once /\ a.sid < b.sid

\* Two subscriptions of the published type, the one of higher priority made
\* last and called first, and a subscriber of another type, not called.
C26_Witness ==
    /\ Published
    /\ ~lastBus.event.cancelled
    /\ Len(EventCalls) = 2
    /\ EventCalls[1].sid = 3
    /\ EventCalls[1].priority > EventCalls[2].priority
    /\ Len(lastBus.before[1].subscribers["HAND_LOST"]) = 1
    /\ Len(bus.invoked) = 3
    /\ bus.invoked[1] + bus.invoked[2] + bus.invoked[3] = 2

\* C27: publish returns not event.cancelled.  If a handler cancelled a
\* cancelable event, the canceller is the last handler called, so no
\* subscription of lower priority (and none at all after it) was called,
\* and False is returned; an event that is not cancelable is never
\* cancelled, every subscription of its type is called, cancellers
\* included, and True is returned; with no subscriber of the type True is
\* returned.
C27_CancelStopsLowerPriority ==
    Published =>
        LET n == Len(EventCalls)
            subscribed == Len(RegularBefore) + Len(OnceBefore)
            cancellers == { i \in 1..n : EventCalls[i].handler = "canceller" }
        IN  /\ lastBus.ret = <<~lastBus.event.cancelled>>
            /\ lastBus.event.cancelled <=>
                   (lastBus.event.cancelable /\ cancellers # {})
            /\ lastBus.event.cancelled =>
                   /\ lastBus.ret = <<FALSE>>
                   /\ cancellers = {n}
                   /\ \A i \in 1..Len(RegularBefore \o OnceBefore) :
                          LET entry == (RegularBefore \o OnceBefore)[i]
                          IN  entry.priority < EventCalls[n].priority
                              => \A k \in 1..n :
                                     EventCalls[k].sid # entry.sid
            /\ ~lastBus.event.cancelable =>
                   /\ lastBus.ret = <<TRUE>>
                   /\ n = subscribed
            /\ subscribed = 0 => lastBus.ret = <<TRUE>>

\* A canceller of priority 5 cancelled a cancelable event and a subscriber
\* of priority 0 was not called.
C27_Witness ==
    /\ Published
    /\ lastBus.event.cancelled
    /\ lastBus.ret = <<FALSE>>
    /\ Len(EventCalls) = 1
    /\ EventCalls[1].handler = "canceller"
    /\ Len(RegularBefore) + Len(OnceBefore) = 3

\* C30: a publish or emit called while the bus is disabled returns False
\* at once, with no handler called and the bus as it was: subscriber
\* lists, one-time lists, history and call counts unchanged.  disable()
\* and enable() change the flag only, subscribe and subscribe_once add
\* their entry whatever the flag is, and a publish or emit called while
\* the bus is enabled is not refused.
C30_DisabledPublishDoesNothing ==
    [][ /\ (~bus.enabled /\ lastBus'.events # lastBus.events) =>
               /\ lastBus'.op \in {"publish", "emit"}
               /\ lastBus'.refused
               /\ lastBus'.ret = <<FALSE>>
               /\ lastBus'.calls = <<>>
               /\ bus' = bus
               /\ thr' = thr
        /\ (bus.enabled /\ lastBus'.events # lastBus.events) =>
               /\ ~lastBus'.refused
               /\ \E t \in Threads : thr'[t].pc = "record"
        /\ bus'.enabled # bus.enabled =>
               /\ bus' = [bus EXCEPT !.enabled = ~bus.enabled]
               /\ lastBus'.op = (IF bus.enabled THEN "disable" ELSE "enable")
        /\ Len(bus'.invoked) # Len(bus.invoked) =>
               \E type \in EventTypes :
                   LET regular == Len(bus'.subscribers[type])
                                      = Len(bus.subscribers[type]) + 1
                       once == Len(bus'.once_subscribers[type])
                                   = Len(bus.once_subscribers[type]) + 1
                   IN  /\ regular # once
                       /\ lastBus'.op = (IF regular THEN "subscribe"
                                         ELSE "subscribe_once")
                       /\ bus'.enabled = bus.enabled ]_vars

\* The first publish was refused and is not in the history; the second,
\* after enable(), called the one-time subscription made first and a
\* regular one, each for the first time.
C30_Witness ==
    /\ Published
    /\ lastBus.event.id = 2
    /\ bus.event_history = <<2>>
    /\ Len(EventCalls) = 2
    /\ Len(OnceBefore) = 1
    /\ OnceBefore[1].sid = 1
    /\ Len(RegularBefore) = 1
    /\ bus.invoked = <<1, 1>>

\* The regular ERROR_OCCURRED subscribers when the last publish collected
\* its handlers.
ErrorSubscribersBefore == lastBus.before[1].subscribers["ERROR_OCCURRED"]

C28_OnceInvokedByFirstPublish ==
    /\ \A sid \in 1..Len(bus.invoked) :
           bus.once[sid] => bus.invoked[sid] <= 1
    /\ Published =>
           \A i \in 1..Len(OnceBefore) : bus.invoked[OnceBefore[i].sid] = 1

\* The publishes under way.
InFlight == Cardinality({ t \in Threads : thr[t].pc # "idle" })

\* C31: however the steps of subscribing and publishing threads interleave,
\* every subscribe call has its entry in the list of its type, once, so the
\* subscriber count is the number of calls; a regular handler is called at
\* most once for each event recorded, at least once for each event recorded
\* after its subscription whose publish has returned, and, when it was
\* subscribed before the first event and every publish has returned,
\* exactly once per publish.
C31_NoSubscriptionOrInvocationLost ==
    LET list == bus.subscribers["CURSOR_MOVED"]
        N == Len(bus.event_history)
    IN  /\ Len(list) = Len(bus.invoked)
        /\ \A sid \in 1..Len(bus.invoked) :
               /\ \E i \in 1..Len(list) : list[i].sid = sid
               /\ bus.invoked[sid] <= N
               /\ bus.invoked[sid] >= N - bus.seen[sid] - InFlight
               /\ (AllIdle /\ bus.seen[sid] = 0) =>
                      /\ bus.invoked[sid] = N
                      /\ N = lastBus.events

\* Two subscriptions made before the first event; two emits from two
\* threads overlapped (the event created second was recorded first), both
\* returned, and each subscription was called twice.
C31_Witness ==
    /\ AllIdle
    /\ lastBus.events = 2
    /\ bus.event_history = <<2, 1>>
    /\ bus.seen = <<0, 0>>
    /\ bus.invoked = <<2, 2>>

\* C38: an unsubscribe call for a type and a handler leaves no regular
\* subscription of that handler for that type, as many as there were, and
\* keeps every other regular subscription of the type, the lists of the
\* other types, every one-time subscription, the history and the enabled
\* flag; a call that finds no such subscription changes nothing; and a
\* publish that collected its handlers before the call still calls each of
\* them, removed or not.
C38_UnsubscribeRemovesAllOfHandler ==
    [][ /\ (lastBus'.op = "unsubscribe" /\ thr' = thr) =>
               LET type == lastBus'.event[1]
                   handler == lastBus'.event[2]
                   old == bus.subscribers[type]
                   new == bus'.subscribers[type]
                   kept == { i \in 1..Len(old) : old[i].handler # handler }
               IN  /\ \A i \in 1..Len(new) : new[i].handler # handler
                   /\ { new[i] : i \in 1..Len(new) } = { old[i] : i \in kept }
                   /\ Len(new) = Cardinality(kept)
                   /\ \A t \in EventTypes \ {type} :
                          bus'.subscribers[t] = bus.subscribers[t]
                   /\ bus'.once_subscribers = bus.once_subscribers
                   /\ bus'.event_history = bus.event_history
                   /\ bus'.enabled = bus.enabled
                   /\ kept = 1..Len(old) => bus' = bus
        /\ (Published /\ lastBus.ret = <<TRUE>> =>
               /\ EntrySids(RegularBefore) \cup EntrySids(OnceBefore)
                      = { EventCalls[i].sid : i \in 1..Len(EventCalls) }
               /\ Len(EventCalls) = Len(RegularBefore) + Len(OnceBefore))'
      ]_vars

\* An unsubscribe call has just removed both subscriptions of one handler
\* while a publish that collected them has not called any yet.
C38_Witness ==
    /\ lastBus.op = "unsubscribe"
    /\ lastBus.event = <<"GESTURE_DETECTED", "handler">>
    /\ bus.once = <<FALSE, FALSE>>
    /\ bus.subscribers["GESTURE_DETECTED"] = <<>>
    /\ thr[1].pc = "call" /\ thr[1].i = 1
    /\ Len(thr[1].handlers_to_call) = 2

\* The gesture of the last frame is none of the two pinch gestures.
NoPinch == lastFrame.gesture[1].type \notin {"CLICK", "CLICK_HOLD"}

HasAction(name) ==
    \E i \in 1..Len(lastFrame.actions) : lastFrame.actions[i][1] = name

PinchTypes == {"CLICK", "CLICK_HOLD", "DOUBLE_CLICK"}

\* C33: over two consecutive processed frames, the second with a hand
\* inside the control zone: a CLICK frame that starts a pinch (the frame
\* before had no hand or no pinch) dispatches one click; a frame that
\* continues a pinch dispatches neither click nor double click; and a
\* double click is dispatched only by a DOUBLE_CLICK frame that starts a
\* pinch.
C33_OneClickPerPinch ==
    [][ ( /\ lastFrame.kind \in {"__init__", "hand", "no_hand"}
          /\ lastFrame'.kind = "hand"
          /\ lastFrame'.smoothed # <<>> ) =>
          LET g == lastFrame'.gesture[1].type
              acts == lastFrame'.actions
              clicks == { i \in 1..Len(acts) : acts[i][1] = "click" }
              doubles == { i \in 1..Len(acts) : acts[i][1] = "double_click" }
              wasPinch == /\ lastFrame.kind = "hand"
                          /\ lastFrame.gesture[1].type \in PinchTypes
          IN  /\ (g = "CLICK" /\ ~wasPinch) => Cardinality(clicks) = 1
              /\ wasPinch => (clicks = {} /\ doubles = {})
              /\ doubles # {} => (g = "DOUBLE_CLICK" /\ ~wasPinch)
              /\ Cardinality(clicks) + Cardinality(doubles) <= 1 ]_vars

C36_ResetFrame ==
    [][ lastOp'.name = "reset" =>
          /\ sm'.state = lastOp'.state
          /\ sm'.previous_state = sm.state
          /\ sm'.current_gesture = None
          /\ sm'.state_data = EmptyDict
          /\ sm'.entered_at = now
          /\ lastOp'.trace = <<>>
          /\ sm'.history = sm.history
          /\ sm'.transitions = sm.transitions
          /\ sm'.callbacks = sm.callbacks
          /\ sm'.enter_callbacks = sm.enter_callbacks
          /\ sm'.exit_callbacks = sm.exit_callbacks ]_vars

\* The machine was reset to the state it was in, with an exit callback of
\* that state registered and a history entry kept.
C36_Witness ==
    /\ lastOp.name = "reset"
    /\ lastOp.state = lastOp.old
    /\ sm.state = "IDLE"
    /\ sm.previous_state = "IDLE"
    /\ "IDLE" \in DOMAIN sm.exit_callbacks
    /\ sm.history # <<>>
    /\ now > 0

\* C37: under the default table and process_gesture alone, from Idle: the
\* machine enters Dragging only from Clicking and on CLICK_HOLD, and while
\* it is in Dragging its last transition was that one; it enters Clicking
\* only from Pointing; it is never in Calibrating or Tutorial; and after
\* process_gesture(FIST) it is in Idle.
C37_DefaultTableReachability ==
    [][ /\ (sm'.state = "DRAGGING" /\ sm.state # "DRAGGING") =>
               /\ sm.state = "CLICKING"
               /\ lastOp'.gesture = "CLICK_HOLD"
        /\ sm'.state = "DRAGGING" =>
               /\ sm'.previous_state = "CLICKING"
               /\ sm'.history[Len(sm'.history)].state = "CLICKING"
               /\ sm'.history[Len(sm'.history)].gesture = "CLICK_HOLD"
        /\ (sm'.state = "CLICKING" /\ sm.state # "CLICKING") =>
               sm.state = "POINTING"
        /\ sm'.state = "CLICKING" => sm'.previous_state = "POINTING"
        /\ sm'.state \notin {"CALIBRATING", "TUTORIAL"}
        /\ lastOp'.gesture = "FIST" =>
               (sm'.state = "IDLE" /\ lastOp'.ret[2] = "IDLE") ]_vars

\* The machine stays in Dragging under a further gesture, three transitions
\* after Idle.
C37_Witness ==
    /\ sm.state = "DRAGGING"
    /\ lastOp.old = "DRAGGING"
    /\ lastOp.gesture = "CLICK_HOLD"
    /\ Len(sm.history) = 3

\* C35: for a process_gesture call that makes a transition, every
\* subscriber registered when the call starts is notified of that
\* transition exactly once, and the notifications each subscriber receives
\* during the call form a chain: the old state of each is the new state of
\* the one before; this also with subscribers that unsubscribe or call
\* process_gesture or force_state while they are notified.
C35_NotifiedOnceInOrder ==
    [][ ( /\ lastOp'.name = "process_gesture"
          /\ lastOp'.hit
          /\ lastOp'.target # lastOp'.old ) =>
          \A k \in 1..Len(sm.callbacks) :
              LET mine == SelectSeq(lastOp'.trace,
                                    LAMBDA e : e.cb = sm.callbacks[k])
              IN  /\ Cardinality({ i \in 1..Len(mine) :
                                       /\ mine[i].args[1] = lastOp'.old
                                       /\ mine[i].args[2] = lastOp'.target })
                         = 1
                  /\ \A i \in 1..(Len(mine) - 1) :
                         mine[i + 1].args[1] = mine[i].args[2] ]_vars

\* The playback threads that were started and have not ended.
PlaybackThreads ==
    { id \in PlaybackIds : rec.threads[id].pc \in {"start", "loop", "end"} }

\* C39: whenever no public method is in progress, a current recording
\* exists exactly when the state is RECORDING or PAUSED; record_frame
\* appends a frame only when it finds the state RECORDING; at most one
\* playback thread runs at a time; and a playback thread that ends leaves
\* the state IDLE.
C39_RecorderConsistent ==
    /\ rec.main.pc = "idle" =>
           (rec.recording # <<>> <=> rec.state \in {"RECORDING", "PAUSED"})
    /\ (rec.last.op = "record_frame" /\ rec.last.ret) =>
           rec.last.before = "RECORDING"
    /\ Cardinality(PlaybackThreads) <= 1
    /\ rec.last.op = "playback_end" => rec.state = "IDLE"

====
